---- MODULE Spec2Model ----
(***************************************************************************)
(* Model of the photo-mosaic engine of src/marketing/create_mosaic.py:     *)
(* the TilePool (tile selection with reuse bookkeeping) and the            *)
(* create_mosaic run that drives it over the grid of the target image.     *)
(*                                                                         *)
(* Tiles are numbered 1..N here (0..N-1 in the source); grid positions     *)
(* are <<gx, gy>> and start at 0 as in the source.                         *)
(***************************************************************************)
EXTENDS Integers, Sequences, FiniteSets, TLC

VARIABLES
    pc,            \* where create_mosaic stands
    err,           \* the exception that ended the run, or "none"
    args,          \* the arguments create_mosaic was called with
    target,        \* the target image file: Unreadable, or its grid and content
    tiles_dir,     \* the tile directory: NoDir, or the sequence of its image files
    colors,        \* TilePool.colors (one average colour per loaded tile)
    usage_count,   \* TilePool.usage_count
    recent_usage,  \* TilePool.recent_usage
    unused_tiles,  \* TilePool.unused_tiles
    allow_reuse,   \* TilePool.allow_reuse
    max_reuse,     \* TilePool.max_reuse
    gx, gy,        \* the loop variables of the grid loop
    output,        \* the output canvas, one entry per grid cell
    bg_cells_skipped, \* the counter of background cells
    cheated,       \* whether the cheat blend has been applied to the canvas
    saved,         \* whether the canvas has been written to output_path
    log,           \* history variable: every placement made by the pool, in order
    visited        \* history variable: the cells the grid loop has processed, in
                   \* order, each with whether it was classified as background

vars == <<pc, err, args, target, tiles_dir, colors, usage_count, recent_usage,
          unused_tiles, allow_reuse, max_reuse, gx, gy, output,
          bg_cells_skipped, cheated, saved, log, visited>>

poolVars == <<colors, usage_count, recent_usage, unused_tiles, allow_reuse, max_reuse>>

-----------------------------------------------------------------------------
(* Bounds of the model *)

MaxFiles == 2          \* image files in the tile directory
MaxShade == 1          \* colours of the palette are numbered 0..MaxShade
MaxGridW == 2          \* grid columns of a free-form target
MaxGridH == 2          \* grid rows of a free-form target
MaxReuseArg == 2       \* max_reuse argument ranges over 0..MaxReuseArg
MaxDistanceArg == 2    \* min_reuse_distance argument is 0 or MaxDistanceArg
StripeW == 101         \* grid columns of the striped target
StripeH == 2           \* grid rows of the striped target

(* Program constants *)

HistoryCap == 100      \* _record_usage: trim when the history is longer than this
HistoryKeep == 50      \* _record_usage: entries kept by a trim
PenaltyScale == 100    \* find_best_match: usage penalty factor
DefaultTopN == 10      \* find_best_match: default of top_n
WeightScale == 2       \* diversity_weight is counted in units of 1/WeightScale

-----------------------------------------------------------------------------
(* Colours.  The palette lies on one line of RGB space, so that every      *)
(* Euclidean distance between two of its colours is an integer and the     *)
(* float square root of color_distance is exact.                           *)

Shade(k) == <<10 * k, 20 * k, 20 * k>>
Palette == {Shade(k) : k \in 0..MaxShade}

ISqrt(n) == CHOOSE r \in 0..n : r * r <= n /\ (r + 1) * (r + 1) > n

color_distance(c1, c2) ==
    ISqrt((c1[1] - c2[1]) * (c1[1] - c2[1])
        + (c1[2] - c2[2]) * (c1[2] - c2[2])
        + (c1[3] - c2[3]) * (c1[3] - c2[3]))

Abs(x) == IF x < 0 THEN -x ELSE x
Max(a, b) == IF a >= b THEN a ELSE b
Min(a, b) == IF a <= b THEN a ELSE b

Manhattan(p, q) == Abs(p[1] - q[1]) + Abs(p[2] - q[2])

RECURSIVE SetMax(_)
SetMax(S) == IF S = {} THEN 0
             ELSE LET x == CHOOSE y \in S : TRUE
                  IN Max(x, SetMax(S \ {x}))

-----------------------------------------------------------------------------
(* TilePool *)

NumTiles == Len(colors)
TileIdx == 1..NumTiles

\* _is_valid_position without its loop over the tile's history.
is_valid_position_no_distance(tile_idx, position) ==
    ~(max_reuse > 0 /\ usage_count[tile_idx] >= max_reuse)

\* _is_valid_position with > for >= in the max_reuse test.
is_valid_position_one_more(tile_idx, position) ==
    /\ ~(max_reuse > 0 /\ usage_count[tile_idx] > max_reuse)
    /\ \A k \in 1..Len(recent_usage[tile_idx]) :
          ~(Manhattan(position, recent_usage[tile_idx][k]) < args.min_reuse_distance)

\* _is_valid_position without the max_reuse > 0 test: a max_reuse of 0 is a
\* limit of no use at all.
is_valid_position_unguarded(tile_idx, position) ==
    /\ ~(usage_count[tile_idx] >= max_reuse)
    /\ \A k \in 1..Len(recent_usage[tile_idx]) :
          ~(Manhattan(position, recent_usage[tile_idx][k]) < args.min_reuse_distance)

\* _is_valid_position that accepts every tile at every position.
is_valid_position_always(tile_idx, position) == TRUE

\* TilePool._is_valid_position
is_valid_position(tile_idx, position) ==
    /\ ~(max_reuse > 0 /\ usage_count[tile_idx] >= max_reuse)
    /\ \A k \in 1..Len(recent_usage[tile_idx]) :
          ~(Manhattan(position, recent_usage[tile_idx][k]) < args.min_reuse_distance)

\* The list after recent_usage[tile_idx].append(position) and the trim.
\* AppendTrimmed with [:50] for [-50:]: the oldest entries are kept.
AppendTrimmed_keeps_oldest(hist, position) ==
    LET h == Append(hist, position)
    IN IF Len(h) > HistoryCap
       THEN SubSeq(h, 1, HistoryKeep)
       ELSE h

AppendTrimmed(hist, position) ==
    LET h == Append(hist, position)
    IN IF Len(h) > HistoryCap
       THEN SubSeq(h, Len(h) - HistoryKeep + 1, Len(h))
       ELSE h

\* _record_usage without the increment of usage_count.
record_usage_history_only(tile_idx, position) ==
    /\ recent_usage' = [recent_usage EXCEPT ![tile_idx] = AppendTrimmed(@, position)]
    /\ usage_count' = usage_count

\* TilePool._record_usage
record_usage(tile_idx, position) ==
    /\ recent_usage' = [recent_usage EXCEPT ![tile_idx] = AppendTrimmed(@, position)]
    /\ usage_count' = [usage_count EXCEPT ![tile_idx] = @ + 1]

\* History variable: the placement about to be recorded, with the operation
\* ("op") that makes it, the branch ("path") that chose it, whether the call was allowed to draw at random,
\* the number of tiles the branch had to pick from, the placement's number
\* among the placements of the tile, and the length of the tile's history
\* before it.
Placement(tile_idx, position, op, path, randomize, among) ==
    [tile |-> tile_idx, pos |-> position, op |-> op, path |-> path,
     randomize |-> randomize, among |-> among,
     nth |-> usage_count[tile_idx] + 1,
     kept |-> Len(recent_usage[tile_idx])]

\* base_distances of find_best_match, for the first n tiles
RECURSIVE base_distances(_, _)
base_distances(target_color, n) ==
    IF n = 0 THEN <<>>
    ELSE Append(base_distances(target_color, n - 1),
                color_distance(target_color, colors[n]))

\* max_usage of find_best_match: max(max(usage_count.values()), 1)
max_usage == Max(SetMax({usage_count[i] : i \in TileIdx}), 1)

\* F applied to the value of e, with e evaluated once.
With(e, F(_)) == CHOOSE r \in {F(x) : x \in {e}} : TRUE

\* adjusted_distances with the usage penalty left out.
adjusted_distances_no_penalty(target_color) ==
    base_distances(target_color, NumTiles)

\* The loop of lines 482-484 over the first n tiles: base_dist + usage_penalty
\* of each, held multiplied by m * WeightScale.
RECURSIVE with_usage_penalty(_, _, _)
with_usage_penalty(base, m, n) ==
    IF n = 0 THEN <<>>
    ELSE Append(with_usage_penalty(base, m, n - 1),
                base[n] * m * WeightScale
                    + usage_count[n] * args.diversity_weight * PenaltyScale)

\* The adjusted distance of every tile.  With a diversity weight each is
\*   base_dist + (usage_count[i] / max_usage) * diversity_weight * 100
\* and is held here multiplied by max_usage * WeightScale, the common
\* denominator of the penalties of one call, which keeps the order.
adjusted_distances(target_color) ==
    LET Adjusted(base) ==
            IF args.diversity_weight > 0
            THEN with_usage_penalty(base, max_usage, NumTiles)
            ELSE base
    IN With(base_distances(target_color, NumTiles), Adjusted)

\* The first n tile indices in the order of adj: by adjusted distance, equal
\* distances in index order.
RECURSIVE sorted_prefix(_, _)
sorted_prefix(adj, n) ==
    LET Before(j, i) == adj[j] < adj[i] \/ (adj[j] = adj[i] /\ j < i)
        Rank(i) == Cardinality({j \in DOMAIN adj : Before(j, i)})
    IN IF n = 0 THEN <<>>
       ELSE Append(sorted_prefix(adj, n - 1),
                   CHOOSE i \in DOMAIN adj : Rank(i) = n - 1)

\* sort_by_distance with the sort left out: the tiles in pool order.
sort_by_distance_unsorted(adj) == [k \in 1..Len(adj) |-> k]

\* The tile indices in the order of adjusted_distances.sort(key=...), which
\* is a stable sort.
sort_by_distance(adj) ==
    LET Sorted(a) == sorted_prefix(a, Len(a))
    IN With(adj, Sorted)

\* need_validation without its test of min_reuse_distance.
need_validation_ignores_distance == (~allow_reuse) \/ (max_reuse > 0)

need_validation ==
    (~allow_reuse) \/ (max_reuse > 0) \/ (args.min_reuse_distance > 0)

\* valid_candidates looking at the first top_n tiles of the sorted order only.
valid_candidates_among_nearest(sorted, position, top_n) ==
    LET Valid(i) == is_valid_position(i, position)
    IN SelectSeq(SubSeq(sorted, 1, Min(top_n, Len(sorted))), Valid)

\* valid_candidates of find_best_match: the first top_n tiles of the sorted
\* order that are valid at the position
valid_candidates(sorted, position, top_n) ==
    LET Valid(i) == is_valid_position(i, position)
        v == SelectSeq(sorted, Valid)
    IN SubSeq(v, 1, Min(top_n, Len(v)))

\* min(range(len(self.tiles)), key=lambda i: self.usage_count[i])
least_used_idx ==
    CHOOSE i \in TileIdx :
        \A j \in TileIdx : usage_count[i] < usage_count[j]
                           \/ (usage_count[i] = usage_count[j] /\ i <= j)

\* best_match with the randomize flag ignored: it draws whenever it can.
best_match_always_draws(target_color, position, top_n, randomize) ==
    LET Among(sorted, c) ==
            IF ~need_validation
            THEN [path |-> "direct", among |-> 1, choices |-> {sorted[1]}]
            ELSE IF Len(c) > 0
            THEN [path |-> "candidate", among |-> Len(c),
                  choices |-> {c[k] : k \in 1..Len(c)}]
            ELSE [path |-> "fallback", among |-> 1, choices |-> {least_used_idx}]
        Select(sorted) ==
            LET Pick(c) == Among(sorted, c)
            IN With(valid_candidates(sorted, position, top_n), Pick)
    IN With(sort_by_distance(adjusted_distances(target_color)), Select)

\* What find_best_match does up to its call of _record_usage: the branch it
\* takes and the tiles it can pick there (one, unless random.choices draws:
\* every weight 1/(1 + 0.5 i) is positive, so every candidate can be drawn).
best_match(target_color, position, top_n, randomize) ==
    LET Among(sorted, c) ==
            IF ~need_validation
            THEN [path |-> "direct", among |-> 1, choices |-> {sorted[1]}]
            ELSE IF Len(c) > 0
            THEN [path |-> "candidate", among |-> Len(c),
                  choices |-> IF randomize /\ Len(c) > 1
                              THEN {c[k] : k \in 1..Len(c)}
                              ELSE {c[1]}]
            ELSE [path |-> "fallback", among |-> 1, choices |-> {least_used_idx}]
        Select(sorted) ==
            LET Pick(c) == Among(sorted, c)
            IN With(valid_candidates(sorted, position, top_n), Pick)
    IN With(sort_by_distance(adjusted_distances(target_color)), Select)

\* TilePool.find_best_match on a pool with at least one tile, returning
\* the tile chosen.
find_best_match(target_color, position, top_n, randomize, chosen) ==
    LET sel == best_match(target_color, position, top_n, randomize)
    IN /\ chosen \in sel.choices
       /\ record_usage(chosen, position)
       /\ log' = Append(log, Placement(chosen, position, "find_best_match", sel.path,
                                        randomize, sel.among))
       /\ UNCHANGED unused_tiles

\* What find_random_tile does up to its call of _record_usage.
random_tile(position) ==
    LET valid_unused == {i \in unused_tiles : is_valid_position(i, position)}
        valid_tiles == {i \in TileIdx : is_valid_position(i, position)}
    IN IF unused_tiles # {} /\ valid_unused # {}
       THEN [path |-> "unused", choices |-> valid_unused]
       ELSE IF valid_tiles # {}
       THEN [path |-> "valid", choices |-> valid_tiles]
       ELSE [path |-> "fallback", choices |-> {least_used_idx}]

\* TilePool.find_random_tile on a pool with at least one tile, returning
\* the tile chosen.
find_random_tile(position, chosen) ==
    LET sel == random_tile(position)
    IN /\ chosen \in sel.choices
       /\ unused_tiles' = IF sel.path = "unused"
                          THEN unused_tiles \ {chosen}
                          ELSE unused_tiles
       /\ record_usage(chosen, position)
       /\ log' = Append(log, Placement(chosen, position, "find_random_tile", sel.path,
                                        TRUE, Cardinality(sel.choices)))

-----------------------------------------------------------------------------
(* The inputs of a run *)

\* A target file Image.open cannot read.
Unreadable == [grid_w |-> 0, grid_h |-> 0, kind |-> "unreadable"]
\* A tiles_dir that does not exist, and one that holds the given image files.
NoDir == [exists |-> FALSE, files |-> <<>>]
Dir(files) == [exists |-> TRUE, files |-> files]
\* An image file load_and_prepare_tile cannot open.
BadFile == <<>>
\* An image file that opens, and whose crop or resize raises.
CropFailFile == <<0>>
\* Python's None where a colour is expected.
NoColor == <<>>

White == <<255, 255, 255>>

\* A cell of the target image: its average colour, and how many of its
\* pixels lie within the tolerance of the background colour.
CellPixels == 4
Cells == [color : Palette, matching : {0, CellPixels}]

\* The content a target of the given kind can have at cell (x, y): any
\* content in a free-form target; in the striped target the odd columns
\* are background and the even columns have the colour Shade(0).
TargetCells(kind, x, y) ==
    IF kind = "stripes"
    THEN {[color |-> Shade(0), matching |-> IF x % 2 = 1 THEN CellPixels ELSE 0]}
    ELSE Cells

FreeTargets ==
    [grid_w : 1..MaxGridW, grid_h : 1..MaxGridH, kind : {"free"}]

StripedTargets ==
    [grid_w : {StripeW}, grid_h : {StripeH}, kind : {"stripes"}]

\* The tile directories: up to MaxFiles image files, each a readable image
\* of some average colour, an unreadable file, or a file that cannot be
\* cropped and resized.
RECURSIVE SeqsUpTo(_, _)
SeqsUpTo(S, n) ==
    IF n = 0 THEN {<<>>}
    ELSE LET shorter == SeqsUpTo(S, n - 1)
         IN shorter \cup {Append(s, x) : s \in {t \in shorter : Len(t) = n - 1}, x \in S}

Directories ==
    {Dir(f) : f \in SeqsUpTo(Palette \cup {BadFile, CropFailFile}, MaxFiles)}

FreeArgs ==
    [allow_reuse : BOOLEAN,
     max_reuse : 0..MaxReuseArg,
     min_reuse_distance : {0, MaxDistanceArg},
     diversity_weight : {0, WeightScale},
     no_color_match : BOOLEAN,
     cheat_alpha : {0, 1},
     background : {NoColor, White},
     bg_threshold10 : {7}]

\* The runs on the striped target: one tile, reuse at distance 2.
StripedArgs ==
    [allow_reuse : {TRUE},
     max_reuse : {0},
     min_reuse_distance : {2},
     diversity_weight : {0},
     no_color_match : BOOLEAN,
     cheat_alpha : {0},
     background : {White},
     bg_threshold10 : {7}]

Blank == [kind |-> "blank"]
BgFill(c) == [kind |-> "bg", color |-> c]
TileFill(i) == [kind |-> "tile", idx |-> i]

GridOf(t) == (0..(t.grid_w - 1)) \X (0..(t.grid_h - 1))

Init ==
    /\ pc = "LOAD_TARGET"
    /\ err = "none"
    /\ \/ /\ target \in FreeTargets \cup {Unreadable}
          /\ tiles_dir \in Directories \cup {NoDir}
          /\ args \in FreeArgs
       \/ /\ target \in StripedTargets
          /\ tiles_dir = Dir(<<Shade(0)>>)
          /\ args \in StripedArgs
    /\ colors = <<>>
    /\ usage_count = <<>>
    /\ recent_usage = <<>>
    /\ unused_tiles = {}
    /\ allow_reuse = args.allow_reuse
    /\ max_reuse = args.max_reuse
    /\ gx = 0
    /\ gy = 0
    /\ output = <<>>
    /\ bg_cells_skipped = 0
    /\ cheated = FALSE
    /\ saved = FALSE
    /\ log = <<>>
    /\ visited = <<>>

-----------------------------------------------------------------------------
(* create_mosaic *)

Fail(e) ==
    /\ pc' = "FAILED"
    /\ err' = e

\* LoadTarget with the failure of Image.open swallowed.
LoadTarget_continues ==
    /\ pc = "LOAD_TARGET"
    /\ pc' = "LOAD_TILES"
    /\ UNCHANGED <<err, args, target, tiles_dir, poolVars, gx, gy, output,
                   bg_cells_skipped, cheated, saved, log, visited>>

\* Lines 599-605: Image.open(target_path) raises on an unreadable target.
LoadTarget ==
    /\ pc = "LOAD_TARGET"
    /\ IF target = Unreadable
       THEN Fail("LoadError")
       ELSE pc' = "LOAD_TILES" /\ err' = err
    /\ UNCHANGED <<args, target, tiles_dir, poolVars, gx, gy, output,
                   bg_cells_skipped, cheated, saved, log, visited>>

\* The tiles TilePool._load_tiles retains: the files that could be prepared,
\* in enumeration order.
IsImage(f) == f # BadFile
loaded_colors(files) == SelectSeq(files, IsImage)

\* Lines 640-648: pool = TilePool(...), that is __init__ and _load_tiles.
LoadTiles ==
    /\ pc = "LOAD_TILES"
    /\ IF ~tiles_dir.exists
       THEN Fail("FileNotFoundError") /\ UNCHANGED poolVars
       ELSE IF Len(tiles_dir.files) = 0
       THEN Fail("ValueError") /\ UNCHANGED poolVars
       ELSE IF \E k \in 1..Len(tiles_dir.files) : tiles_dir.files[k] = CropFailFile
       THEN Fail("TilePrepareError") /\ UNCHANGED poolVars
       ELSE /\ colors' = loaded_colors(tiles_dir.files)
            /\ usage_count' = [i \in 1..Len(colors') |-> 0]
            /\ recent_usage' = [i \in 1..Len(colors') |-> <<>>]
            /\ unused_tiles' = 1..Len(colors')
            /\ allow_reuse' = args.allow_reuse
            /\ max_reuse' = args.max_reuse
            /\ pc' = "CAPACITY_CHECK"
            /\ err' = err
    /\ UNCHANGED <<args, target, tiles_dir, gx, gy, output,
                   bg_cells_skipped, cheated, saved, log, visited>>

\* min_reuse_per_tile with - 1 for + 1.
min_reuse_per_tile_minus_one(tiles_needed, n_tiles) == (tiles_needed \div n_tiles) - 1

\* min_reuse_per_tile of the capacity check (line 653)
min_reuse_per_tile(tiles_needed, n_tiles) == (tiles_needed \div n_tiles) + 1

\* Lines 650-662: the capacity check, then the blank output canvas.
CapacityCheck ==
    /\ pc = "CAPACITY_CHECK"
    /\ LET cells == target.grid_w * target.grid_h
       IN IF cells > NumTiles /\ ~args.allow_reuse
          THEN IF NumTiles = 0
               THEN Fail("ZeroDivisionError")
                    /\ UNCHANGED <<allow_reuse, max_reuse, output>>
               ELSE /\ allow_reuse' = TRUE
                    /\ max_reuse' = min_reuse_per_tile(cells, NumTiles)
                    /\ output' = [p \in GridOf(target) |-> Blank]
                    /\ pc' = "GRID_FILL"
                    /\ err' = err
          ELSE /\ UNCHANGED <<allow_reuse, max_reuse>>
               /\ output' = [p \in GridOf(target) |-> Blank]
               /\ pc' = "GRID_FILL"
               /\ err' = err
    /\ UNCHANGED <<args, target, tiles_dir, colors, usage_count, recent_usage,
                   unused_tiles, gx, gy, bg_cells_skipped, cheated, saved, log, visited>>

\* is_background_cell: match_ratio >= threshold
is_background_cell(cell, threshold10) ==
    cell.matching * 10 >= threshold10 * CellPixels

\* NextCell with the two loops exchanged (column-major order).
NextCell_column_major ==
    /\ gy' = IF gy + 1 < target.grid_h THEN gy + 1 ELSE 0
    /\ gx' = IF gy + 1 < target.grid_h THEN gx ELSE gx + 1
    /\ pc' = IF gx + 1 < target.grid_w \/ gy + 1 < target.grid_h
             THEN "GRID_FILL"
             ELSE IF args.cheat_alpha > 0 THEN "CHEAT_BLEND" ELSE "SAVE"

\* NextCell with the cheat blend left out.
NextCell_never_cheats ==
    /\ gx' = IF gx + 1 < target.grid_w THEN gx + 1 ELSE 0
    /\ gy' = IF gx + 1 < target.grid_w THEN gy ELSE gy + 1
    /\ pc' = IF gx + 1 < target.grid_w \/ gy + 1 < target.grid_h
             THEN "GRID_FILL"
             ELSE "SAVE"

\* The end of one iteration of
\*   for gy in range(grid_h): for gx in range(grid_w)
\* the loop variables move on in row-major order; after the last cell the
\* run goes on to the cheat blend if cheat_alpha > 0 (line 726), and to
\* saving otherwise.
NextCell ==
    /\ gx' = IF gx + 1 < target.grid_w THEN gx + 1 ELSE 0
    /\ gy' = IF gx + 1 < target.grid_w THEN gy ELSE gy + 1
    /\ pc' = IF gx + 1 < target.grid_w \/ gy + 1 < target.grid_h
             THEN "GRID_FILL"
             ELSE IF args.cheat_alpha > 0 THEN "CHEAT_BLEND" ELSE "SAVE"

InGrid == pc = "GRID_FILL"

\* BackgroundCell with a tile selected for the cell before it is filled.
BackgroundCell_selects_tile(cell) ==
    /\ InGrid
    /\ args.background # NoColor
    /\ is_background_cell(cell, args.bg_threshold10)
    /\ output' = [output EXCEPT ![<<gx, gy>>] = BgFill(args.background)]
    /\ bg_cells_skipped' = bg_cells_skipped + 1
    /\ visited' = Append(visited, [pos |-> <<gx, gy>>, bg |-> TRUE])
    /\ NextCell
    /\ IF NumTiles > 0
       THEN record_usage(least_used_idx, <<gx, gy>>)
       ELSE UNCHANGED <<usage_count, recent_usage>>
    /\ UNCHANGED <<err, args, target, tiles_dir, colors, unused_tiles, allow_reuse,
                   max_reuse, cheated, saved, log>>

\* Lines 678-690: a background cell is filled with bg_color.
BackgroundCell(cell) ==
    /\ InGrid
    /\ args.background # NoColor
    /\ is_background_cell(cell, args.bg_threshold10)
    /\ output' = [output EXCEPT ![<<gx, gy>>] = BgFill(args.background)]
    /\ bg_cells_skipped' = bg_cells_skipped + 1
    /\ visited' = Append(visited, [pos |-> <<gx, gy>>, bg |-> TRUE])
    /\ NextCell
    /\ UNCHANGED <<err, args, target, tiles_dir, poolVars, cheated, saved, log>>

IsTileCell(cell) ==
    /\ InGrid
    /\ ~(args.background # NoColor /\ is_background_cell(cell, args.bg_threshold10))

\* Lines 692-717 with no_color_match false: the best match is placed.
MatchCell(cell, chosen) ==
    /\ IsTileCell(cell)
    /\ NumTiles > 0
    /\ ~args.no_color_match
    /\ find_best_match(cell.color, <<gx, gy>>, DefaultTopN, TRUE, chosen)
    /\ output' = [output EXCEPT ![<<gx, gy>>] = TileFill(chosen)]
    /\ visited' = Append(visited, [pos |-> <<gx, gy>>, bg |-> FALSE])
    /\ NextCell
    /\ UNCHANGED <<err, args, target, tiles_dir, colors, allow_reuse, max_reuse,
                   bg_cells_skipped, cheated, saved>>

\* Lines 692-717 with no_color_match true: a random tile is placed.
RandomCell(cell, chosen) ==
    /\ IsTileCell(cell)
    /\ NumTiles > 0
    /\ args.no_color_match
    /\ find_random_tile(<<gx, gy>>, chosen)
    /\ output' = [output EXCEPT ![<<gx, gy>>] = TileFill(chosen)]
    /\ visited' = Append(visited, [pos |-> <<gx, gy>>, bg |-> FALSE])
    /\ NextCell
    /\ UNCHANGED <<err, args, target, tiles_dir, colors, allow_reuse, max_reuse,
                   bg_cells_skipped, cheated, saved>>

\* Selection on a pool without tiles: adjusted_distances[0] raises IndexError
\* when nothing is validated, min() of an empty range raises ValueError otherwise.
EmptyPoolCell(cell) ==
    /\ IsTileCell(cell)
    /\ NumTiles = 0
    /\ Fail(IF ~args.no_color_match /\ ~need_validation THEN "IndexError" ELSE "ValueError")
    /\ UNCHANGED <<args, target, tiles_dir, poolVars, gx, gy, output,
                   bg_cells_skipped, cheated, saved, log, visited>>

\* Lines 726-766: the target is blended over the canvas.
CheatBlend ==
    /\ pc = "CHEAT_BLEND"
    /\ cheated' = TRUE
    /\ pc' = "SAVE"
    /\ UNCHANGED <<err, args, target, tiles_dir, poolVars, gx, gy, output,
                   bg_cells_skipped, saved, log, visited>>

\* Lines 768-777: the canvas is saved and its path returned.
Save ==
    /\ pc = "SAVE"
    /\ saved' = TRUE
    /\ pc' = "DONE"
    /\ UNCHANGED <<err, args, target, tiles_dir, poolVars, gx, gy, output,
                   bg_cells_skipped, cheated, log, visited>>

\* Line 777: what create_mosaic returns to its caller, the path of the saved
\* file and nothing else.
run_result == [output_path |-> "mosaic.png"]

\* The content of the target at the cell the grid loop stands at.
CellsHere == TargetCells(target.kind, gx, gy)

Next ==
    \/ LoadTarget
    \/ LoadTiles
    \/ CapacityCheck
    \/ \E cell \in CellsHere : BackgroundCell(cell)
    \/ \E cell \in CellsHere, chosen \in TileIdx : MatchCell(cell, chosen)
    \/ \E cell \in CellsHere, chosen \in TileIdx : RandomCell(cell, chosen)
    \/ \E cell \in CellsHere : EmptyPoolCell(cell)
    \/ CheatBlend
    \/ Save

Spec == Init /\ [][Next]_vars

\* create_mosaic is one sequential call that is never suspended: a run goes
\* on until it is done or has failed.
FairSpec == Spec /\ WF_vars(Next)

-----------------------------------------------------------------------------
(* A TilePool called directly: any caller, any sequence of MaxCalls calls  *)
(* of find_best_match and find_random_tile with any arguments.             *)

MaxCalls == 2          \* calls made on the pool

PoolArgs ==
    [allow_reuse : BOOLEAN,
     max_reuse : 0..MaxReuseArg,
     min_reuse_distance : {0, MaxDistanceArg},
     diversity_weight : {0, WeightScale},
     no_color_match : {FALSE},
     cheat_alpha : {0},
     background : {NoColor},
     bg_threshold10 : {7}]

PoolArea == [grid_w |-> MaxGridW, grid_h |-> MaxGridH, kind |-> "free"]
PoolPositions == GridOf(PoolArea)
PoolTopNs == {1, DefaultTopN}

\* The pool as TilePool(...) returns it, over a directory that holds at
\* least one tile.
PoolInit ==
    /\ pc = "POOL_READY"
    /\ err = "none"
    /\ args \in PoolArgs
    /\ target = PoolArea
    /\ tiles_dir \in {Dir(f) : f \in SeqsUpTo(Palette, MaxFiles) \ {<<>>}}
    /\ colors = loaded_colors(tiles_dir.files)
    /\ usage_count = [i \in 1..Len(colors) |-> 0]
    /\ recent_usage = [i \in 1..Len(colors) |-> <<>>]
    /\ unused_tiles = 1..Len(colors)
    /\ allow_reuse = args.allow_reuse
    /\ max_reuse = args.max_reuse
    /\ gx = 0 /\ gy = 0
    /\ output = <<>>
    /\ bg_cells_skipped = 0
    /\ cheated = FALSE
    /\ saved = FALSE
    /\ log = <<>>
    /\ visited = <<>>

CallFindBestMatch(target_color, position, top_n, randomize, chosen) ==
    /\ pc = "POOL_READY"
    /\ Len(log) < MaxCalls
    /\ find_best_match(target_color, position, top_n, randomize, chosen)
    /\ UNCHANGED <<pc, err, args, target, tiles_dir, colors, allow_reuse, max_reuse,
                   gx, gy, output, bg_cells_skipped, cheated, saved, visited>>

CallFindRandomTile(position, chosen) ==
    /\ pc = "POOL_READY"
    /\ Len(log) < MaxCalls
    /\ find_random_tile(position, chosen)
    /\ UNCHANGED <<pc, err, args, target, tiles_dir, colors, allow_reuse, max_reuse,
                   gx, gy, output, bg_cells_skipped, cheated, saved, visited>>

PoolNext ==
    \/ \E c \in Palette, p \in PoolPositions, n \in PoolTopNs, r \in BOOLEAN,
          chosen \in TileIdx : CallFindBestMatch(c, p, n, r, chosen)
    \/ \E p \in PoolPositions, chosen \in TileIdx : CallFindRandomTile(p, chosen)

PoolSpec == PoolInit /\ [][PoolNext]_vars

-----------------------------------------------------------------------------
(* Two unsynchronized callers of one TilePool.  Each makes one call of      *)
(* find_best_match, and a call is two steps: the selection (lines 470-524,  *)
(* up to the choice of tile_idx) and the call of _record_usage on the tile  *)
(* it chose.  Between the two steps the other caller may run.  Here         *)
(* "output" holds the local variables of the two calls and "visited" is the *)
(* history of their steps.                                                  *)

Callers == {1, 2}

NotCalled == [at |-> "idle"]
Returned == [at |-> "returned"]

RaceInit ==
    /\ pc = "RACE"
    /\ err = "none"
    /\ args \in PoolArgs
    /\ target = PoolArea
    /\ tiles_dir \in {Dir(f) : f \in SeqsUpTo(Palette, MaxFiles) \ {<<>>}}
    /\ colors = loaded_colors(tiles_dir.files)
    /\ usage_count = [i \in 1..Len(colors) |-> 0]
    /\ recent_usage = [i \in 1..Len(colors) |-> <<>>]
    /\ unused_tiles = 1..Len(colors)
    /\ allow_reuse = args.allow_reuse
    /\ max_reuse = args.max_reuse
    /\ gx = 0 /\ gy = 0
    /\ output = [t \in Callers |-> NotCalled]
    /\ bg_cells_skipped = 0
    /\ cheated = FALSE
    /\ saved = FALSE
    /\ log = <<>>
    /\ visited = <<>>

\* find_best_match up to its call of _record_usage, run by caller t.
RaceSelect(t, target_color, position, top_n, randomize, chosen) ==
    LET sel == best_match(target_color, position, top_n, randomize)
    IN /\ pc = "RACE"
       /\ output[t] = NotCalled
       /\ chosen \in sel.choices
       /\ output' = [output EXCEPT ![t] =
                        [at |-> "selected", tile_idx |-> chosen,
                         position |-> position, path |-> sel.path,
                         randomize |-> randomize, among |-> sel.among]]
       /\ visited' = Append(visited, [caller |-> t, step |-> "select"])
       /\ UNCHANGED <<pc, err, args, target, tiles_dir, poolVars, gx, gy,
                      bg_cells_skipped, cheated, saved, log>>

\* The call of _record_usage that ends the find_best_match of caller t.
RaceRecord(t) ==
    /\ pc = "RACE"
    /\ output[t].at = "selected"
    /\ record_usage(output[t].tile_idx, output[t].position)
    /\ log' = Append(log, Placement(output[t].tile_idx, output[t].position,
                                    "find_best_match", output[t].path,
                                    output[t].randomize, output[t].among))
    /\ output' = [output EXCEPT ![t] = Returned]
    /\ visited' = Append(visited, [caller |-> t, step |-> "record"])
    /\ UNCHANGED <<pc, err, args, target, tiles_dir, colors, unused_tiles,
                   allow_reuse, max_reuse, gx, gy, bg_cells_skipped, cheated, saved>>

\* The callers call as the grid loop does (line 699), with the defaults of
\* top_n and randomize.
RaceNext ==
    \/ \E t \in Callers, c \in Palette, p \in PoolPositions, chosen \in TileIdx :
          RaceSelect(t, c, p, DefaultTopN, TRUE, chosen)
    \/ \E t \in Callers : RaceRecord(t)

RaceSpec == RaceInit /\ [][RaceNext]_vars

-----------------------------------------------------------------------------
(* Pixel arithmetic.  apply_tint and the cheat blend compute in NumPy       *)
(* float32, so a float is modelled as an IEEE-754 binary32 number           *)
(* s * m * 2^e with a 24-bit mantissa m (2^23 <= m < 2^24, or m = 0 for     *)
(* zero), and every operation rounds its exact result to the nearest such   *)
(* number, ties to even.  The values of a blend stay far from the           *)
(* subnormal and the overflow range, which are not modelled.                *)

MantissaBits == 24     \* np.float32: width of the significand
ChannelMax == 255      \* the largest value of a uint8 channel
AlphaScale == 4        \* alpha is counted in units of 1/AlphaScale
MaxAlphaStep == 8      \* alpha ranges over -1 .. MaxAlphaStep/AlphaScale

Pow2(k) == 2 ^ k

RECURSIVE BitLen(_)
BitLen(n) == IF n = 0 THEN 0 ELSE 1 + BitLen(n \div 2)

F32Zero == [s |-> 1, m |-> 0, e |-> 0]

\* The float nearest to s * (n + f) * 2^e, where 0 <= f < 1 and f > 0 iff
\* sticky (a sticky n has at least MantissaBits + 1 bits).
F32Round(s, n, e, sticky) ==
    IF n = 0 THEN F32Zero
    ELSE LET len == BitLen(n) IN
         IF len <= MantissaBits
         THEN [s |-> s, m |-> n * Pow2(MantissaBits - len),
               e |-> e - (MantissaBits - len)]
         ELSE LET sh == len - MantissaBits
                  q == n \div Pow2(sh)
                  r == n % Pow2(sh)
                  half == Pow2(sh - 1)
                  up == r > half \/ (r = half /\ (sticky \/ q % 2 = 1))
                  m == IF up THEN q + 1 ELSE q
              IN IF m = Pow2(MantissaBits)
                 THEN [s |-> s, m |-> Pow2(MantissaBits - 1), e |-> e + sh + 1]
                 ELSE [s |-> s, m |-> m, e |-> e + sh]

F32FromInt(n) == IF n >= 0 THEN F32Round(1, n, 0, FALSE)
                 ELSE F32Round(0 - 1, 0 - n, 0, FALSE)

F32Neg(x) == IF x.m = 0 THEN x ELSE [x EXCEPT !.s = 0 - x.s]

F32MagLess(x, y) ==
    IF y.m = 0 THEN FALSE
    ELSE IF x.m = 0 THEN TRUE
    ELSE x.e < y.e \/ (x.e = y.e /\ x.m < y.m)

F32Less(x, y) ==
    IF x.s = 1 /\ y.s = 1 THEN F32MagLess(x, y)
    ELSE IF x.s = 1 THEN FALSE
    ELSE IF y.s = 1 THEN TRUE
    ELSE F32MagLess(y, x)

\* The 48-bit product of the mantissas is formed from 12-bit halves.
F32Mul(x, y) ==
    IF x.m = 0 \/ y.m = 0 THEN F32Zero
    ELSE LET xh == x.m \div 4096
             xl == x.m % 4096
             yh == y.m \div 4096
             yl == y.m % 4096
             mid == xh * yl + xl * yh
             low == (mid % 4096) * 4096 + xl * yl
             hi == xh * yh + mid \div 4096 + low \div Pow2(24)
             lo == low % Pow2(24)
         IN F32Round(x.s * y.s, hi * 64 + lo \div Pow2(18), x.e + y.e + 18,
                     lo % Pow2(18) # 0)

\* Long division: the quotient of the mantissas to 27 binary places.
RECURSIVE DivBits(_, _, _, _)
DivBits(q, r, d, places) ==
    IF places = 0 THEN <<q, r>>
    ELSE IF 2 * r >= d THEN DivBits(2 * q + 1, 2 * r - d, d, places - 1)
    ELSE DivBits(2 * q, 2 * r, d, places - 1)

F32Div(x, y) ==
    IF x.m = 0 THEN F32Zero
    ELSE LET qr == DivBits(x.m \div y.m, x.m % y.m, y.m, MantissaBits + 3)
         IN F32Round(x.s * y.s, qr[1], x.e - y.e - (MantissaBits + 3), qr[2] # 0)

\* x + y for |x| >= |y| and equal signs, with three guard bits.
F32AddMag(x, y) ==
    LET d == x.e - y.e
        a == x.m * 8
        b == IF d > MantissaBits + 3 THEN 0 ELSE (y.m * 8) \div Pow2(d)
        sticky == IF d > MantissaBits + 3 THEN TRUE ELSE (y.m * 8) % Pow2(d) # 0
    IN F32Round(x.s, a + b, x.e - 3, sticky)

\* x - |y| in magnitude for |x| > |y|, with the sign of x.
F32SubMag(x, y) ==
    LET d == x.e - y.e
        a == x.m * 8
        b == IF d > MantissaBits + 3 THEN 0 ELSE (y.m * 8) \div Pow2(d)
        sticky == IF d > MantissaBits + 3 THEN TRUE ELSE (y.m * 8) % Pow2(d) # 0
    IN F32Round(x.s, IF sticky THEN a - b - 1 ELSE a - b, x.e - 3, sticky)

F32Add(x, y) ==
    IF x.m = 0 THEN y
    ELSE IF y.m = 0 THEN x
    ELSE IF x.s = y.s
         THEN IF F32MagLess(x, y) THEN F32AddMag(y, x) ELSE F32AddMag(x, y)
    ELSE IF F32MagLess(x, y) THEN F32SubMag(y, x)
    ELSE IF F32MagLess(y, x) THEN F32SubMag(x, y)
    ELSE F32Zero

F32Sub(x, y) == F32Add(x, F32Neg(y))

\* np.clip
F32Clip(x, lo, hi) == IF F32Less(x, lo) THEN lo ELSE IF F32Less(hi, x) THEN hi ELSE x

\* The integer part of x (truncation toward zero).
F32Trunc(x) ==
    IF x.m = 0 THEN 0
    ELSE IF x.e >= 0 THEN x.s * x.m * Pow2(x.e)
    ELSE IF 0 - x.e >= MantissaBits THEN 0
    ELSE x.s * (x.m \div Pow2(0 - x.e))

\* A Python float literal num/den, converted to float32.
F32Lit(num, den) == F32Div(F32FromInt(num), F32FromInt(den))

F32One == F32FromInt(1)
F32Two == F32FromInt(2)

\* arr.astype(np.float32) / 255.0, for one channel
to_float_by_256(v) == F32Div(F32FromInt(v), F32FromInt(ChannelMax + 1))
to_float(v) == F32Div(F32FromInt(v), F32FromInt(ChannelMax))

\* np.clip(x * 255, 0, 255).astype(np.uint8), for one channel
to_uint8_wraps(x) == F32Trunc(F32Mul(x, F32FromInt(ChannelMax))) % (ChannelMax + 1)
to_uint8(x) ==
    F32Trunc(F32Clip(F32Mul(x, F32FromInt(ChannelMax)),
                     F32FromInt(0), F32FromInt(ChannelMax)))

normalize(pixel) == <<to_float(pixel[1]), to_float(pixel[2]), to_float(pixel[3])>>
quantize(pixel) == <<to_uint8(pixel[1]), to_uint8(pixel[2]), to_uint8(pixel[3])>>

\* alpha and 1 - alpha as the float32 factors of the mix; alpha is a
\* multiple of 1/AlphaScale, so that both are exact.
alpha_factor(step) == F32Div(F32FromInt(step), F32FromInt(AlphaScale))
one_minus_alpha(step) == F32Div(F32FromInt(AlphaScale - step), F32FromInt(AlphaScale))

\* (1 - alpha) * base + alpha * blend, for one channel
mix(step, base, blend) ==
    F32Add(F32Mul(one_minus_alpha(step), base), F32Mul(alpha_factor(step), blend))

mix_pixel(step, base, blend) ==
    <<mix(step, base[1], blend[1]), mix(step, base[2], blend[2]),
      mix(step, base[3], blend[3])>>

multiplied(base, blend) == F32Mul(base, blend)

screened(base, blend) ==
    F32Sub(F32One, F32Mul(F32Sub(F32One, base), F32Sub(F32One, blend)))

overlayed(base, blend) ==
    IF F32Less(base, F32Lit(1, 2))
    THEN F32Mul(F32Mul(F32Two, base), blend)
    ELSE F32Sub(F32One, F32Mul(F32Mul(F32Two, F32Sub(F32One, base)),
                               F32Sub(F32One, blend)))

soft(base, blend) ==
    F32Add(F32Mul(F32Sub(F32One, F32Mul(F32Two, blend)), F32Mul(base, base)),
           F32Mul(F32Mul(F32Two, blend), base))

\* 0.299 * r + 0.587 * g + 0.114 * b
luminosity(p) ==
    F32Add(F32Add(F32Mul(F32Lit(299, 1000), p[1]), F32Mul(F32Lit(587, 1000), p[2])),
           F32Mul(F32Lit(114, 1000), p[3]))

\* np.clip(blend * scale, 0, 1)
scaled(blend, scale) ==
    <<F32Clip(F32Mul(blend[1], scale), F32Zero, F32One),
      F32Clip(F32Mul(blend[2], scale), F32Zero, F32One),
      F32Clip(F32Mul(blend[3], scale), F32Zero, F32One)>>

\* The per-channel blend of the modes that work channel by channel; an
\* unknown mode falls back to normal.
channel_blend(blend_mode, base, blend) ==
    IF blend_mode = "multiply" THEN multiplied(base, blend)
    ELSE IF blend_mode = "screen" THEN screened(base, blend)
    ELSE IF blend_mode = "overlay" THEN overlayed(base, blend)
    ELSE IF blend_mode = "soft_light" THEN soft(base, blend)
    ELSE blend

channel_blends(blend_mode, base, blend) ==
    <<channel_blend(blend_mode, base[1], blend[1]),
      channel_blend(blend_mode, base[2], blend[2]),
      channel_blend(blend_mode, base[3], blend[3])>>

\* The blended pixel of apply_tint ("result") before it is rescaled, for
\* one pixel of the tile.
tint_result(tile, tint_color, alpha, blend_mode) ==
    LET tile_float == normalize(tile)
        tint_norm == normalize(tint_color)
        tile_lum == luminosity(tile_float)
        tint_lum == luminosity(tint_norm)
        colored == IF F32Less(F32Lit(1, 1000), tint_lum)
                   THEN scaled(tint_norm, F32Div(tile_lum, tint_lum))
                   ELSE <<tile_lum, tile_lum, tile_lum>>
        result == IF blend_mode = "color"
                  THEN mix_pixel(alpha, tile_float, colored)
                  ELSE mix_pixel(alpha, tile_float,
                                 channel_blends(blend_mode, tile_float, tint_norm))
    IN result

\* apply_tint, on one pixel of the tile
apply_tint(tile, tint_color, alpha, blend_mode) ==
    quantize(tint_result(tile, tint_color, alpha, blend_mode))

\* The blended pixel of the cheat blend of create_mosaic ("blended") before
\* it is rescaled, for one pixel of the mosaic and the pixel of the resized
\* target that lies over it.
cheat_blended(mosaic_px, target_px, cheat_alpha, blend_mode) ==
    LET base == normalize(mosaic_px)
        overlay == normalize(target_px)
        base_lum == luminosity(base)
        lum == luminosity(overlay)
        overlay_lum == IF F32Less(lum, F32Lit(1, 1000)) THEN F32Lit(1, 1000) ELSE lum
        colored == scaled(overlay, F32Div(base_lum, overlay_lum))
        blended == IF blend_mode = "color"
                   THEN mix_pixel(cheat_alpha, base, colored)
                   ELSE mix_pixel(cheat_alpha, base,
                                  channel_blends(blend_mode, base, overlay))
    IN blended

cheat_blend(mosaic_px, target_px, cheat_alpha, blend_mode) ==
    quantize(cheat_blended(mosaic_px, target_px, cheat_alpha, blend_mode))

-----------------------------------------------------------------------------
(* The blends called directly, on one pixel: any pixel, any tint or        *)
(* overlay pixel, any alpha and any blend mode.                             *)

BlendModes == {"normal", "multiply", "screen", "overlay", "soft_light", "color", "hue"}

AlphaSteps == (0 - AlphaScale)..MaxAlphaStep

Channels == 0..ChannelMax

SampleColors == {<<0, 0, 0>>, <<255, 255, 255>>, <<255, 0, 0>>, <<0, 0, 1>>,
                 <<128, 64, 200>>}

\* One pixel for every channel value.
Ramp == {<<v, ChannelMax - v, (5 * v) % (ChannelMax + 1)>> : v \in Channels}

BlendCalls ==
    [pixel : Ramp, over : SampleColors, alpha : {0}, blend_mode : BlendModes]
    \cup [pixel : SampleColors, over : Ramp, alpha : {AlphaScale},
          blend_mode : {"normal"}]
    \cup [pixel : SampleColors, over : SampleColors, alpha : AlphaSteps,
          blend_mode : BlendModes]

NoPixel == [op |-> "none", pixel |-> <<>>]

BlendInit ==
    /\ pc = "BLEND_READY"
    /\ err = "none"
    /\ args \in BlendCalls
    /\ target = Unreadable
    /\ tiles_dir = NoDir
    /\ colors = <<>>
    /\ usage_count = <<>>
    /\ recent_usage = <<>>
    /\ unused_tiles = {}
    /\ allow_reuse = FALSE
    /\ max_reuse = 0
    /\ gx = 0 /\ gy = 0
    /\ output = NoPixel
    /\ bg_cells_skipped = 0
    /\ cheated = FALSE
    /\ saved = FALSE
    /\ log = <<>>
    /\ visited = <<>>

CallApplyTint ==
    /\ pc = "BLEND_READY"
    /\ pc' = "BLENDED"
    /\ output' = [op |-> "apply_tint",
                  pixel |-> apply_tint(args.pixel, args.over, args.alpha,
                                       args.blend_mode)]
    /\ UNCHANGED <<err, args, target, tiles_dir, poolVars, gx, gy,
                   bg_cells_skipped, cheated, saved, log, visited>>

\* create_mosaic blends only when cheat_alpha > 0.
CallCheatBlend ==
    /\ pc = "BLEND_READY"
    /\ args.alpha > 0
    /\ pc' = "BLENDED"
    /\ output' = [op |-> "cheat_blend",
                  pixel |-> cheat_blend(args.pixel, args.over, args.alpha,
                                        args.blend_mode)]
    /\ UNCHANGED <<err, args, target, tiles_dir, poolVars, gx, gy,
                   bg_cells_skipped, cheated, saved, log, visited>>

BlendNext == CallApplyTint \/ CallCheatBlend

BlendSpec == BlendInit /\ [][BlendNext]_vars

-----------------------------------------------------------------------------
(* Configuration strings.  A Python string is the sequence of its           *)
(* characters, None is NoneSpec; int() is modelled for an optional sign     *)
(* followed by digits of the base, between optional blanks.                 *)

NoneSpec == <<"None">>

IndexOf(seq, x) ==
    IF \E i \in 1..Len(seq) : seq[i] = x
    THEN CHOOSE i \in 1..Len(seq) : seq[i] = x /\ \A j \in 1..(i - 1) : seq[j] # x
    ELSE 0

UpperCase == <<"A", "B", "C", "D", "E", "F", "G", "H", "I", "J", "K", "L", "M",
               "N", "O", "P", "Q", "R", "S", "T", "U", "V", "W", "X", "Y", "Z">>
LowerCase == <<"a", "b", "c", "d", "e", "f", "g", "h", "i", "j", "k", "l", "m",
               "n", "o", "p", "q", "r", "s", "t", "u", "v", "w", "x", "y", "z">>
DigitChars == <<"0", "1", "2", "3", "4", "5", "6", "7", "8", "9",
                "a", "b", "c", "d", "e", "f">>

lower_char(ch) ==
    IF IndexOf(UpperCase, ch) > 0 THEN LowerCase[IndexOf(UpperCase, ch)] ELSE ch

\* str.lower
lower(s) == [i \in 1..Len(s) |-> lower_char(s[i])]

\* str.lstrip(ch) and str.rstrip(ch)
RECURSIVE lstrip(_, _)
lstrip(s, ch) == IF s # <<>> /\ s[1] = ch THEN lstrip(Tail(s), ch) ELSE s

RECURSIVE rstrip(_, _)
rstrip(s, ch) ==
    IF s # <<>> /\ s[Len(s)] = ch THEN rstrip(SubSeq(s, 1, Len(s) - 1), ch) ELSE s

\* str.strip
strip(s) == rstrip(lstrip(s, " "), " ")

\* str.split(sep)
RECURSIVE split(_, _)
split(s, sep) ==
    IF IndexOf(s, sep) = 0 THEN <<s>>
    ELSE <<SubSeq(s, 1, IndexOf(s, sep) - 1)>>
             \o split(SubSeq(s, IndexOf(s, sep) + 1, Len(s)), sep)

ValueError == [ok |-> FALSE, value |-> 0]

\* The value of a string of digits of the base, or ValueError.
RECURSIVE digits_value(_, _, _)
digits_value(s, base, acc) ==
    IF s = <<>> THEN [ok |-> TRUE, value |-> acc]
    ELSE LET d == IndexOf(DigitChars, lower_char(s[1])) - 1
         IN IF d < 0 \/ d >= base THEN ValueError
            ELSE digits_value(Tail(s), base, acc * base + d)

\* int(s, base)
int(s, base) ==
    LET t == strip(s)
        signed == t # <<>> /\ t[1] \in {"+", "-"}
        body == IF signed THEN Tail(t) ELSE t
        v == digits_value(body, base, 0)
    IN IF body = <<>> \/ ~v.ok THEN ValueError
       ELSE IF signed /\ t[1] = "-" THEN [ok |-> TRUE, value |-> 0 - v.value]
       ELSE v

\* The try block both parsers share: the three integers of "R,G,B" if the
\* string splits into three integers of 0..255, else no colour.
comma_rgb(s) ==
    LET parts == split(s, ",")
        ints == [k \in 1..Len(parts) |-> int(strip(parts[k]), 10)]
    IN IF /\ \A k \in 1..Len(parts) : ints[k].ok
          /\ Len(parts) = 3
          /\ \A k \in 1..3 : 0 <= ints[k].value /\ ints[k].value <= 255
       THEN <<ints[1].value, ints[2].value, ints[3].value>>
       ELSE NoColor

\* parse_hex_color
parse_hex_color(hex_str) ==
    IF hex_str = NoneSpec \/ hex_str = <<>> THEN NoColor
    ELSE LET s == strip(hex_str)
             rgb == IF IndexOf(s, ",") > 0 THEN comma_rgb(s) ELSE NoColor
             h == lstrip(s, "#")
             r == int(SubSeq(h, 1, 2), 16)
             g == int(SubSeq(h, 3, 4), 16)
             b == int(SubSeq(h, 5, 6), 16)
         IN IF rgb # NoColor THEN rgb
            ELSE IF Len(h) = 6 /\ r.ok /\ g.ok /\ b.ok
            THEN <<r.value, g.value, b.value>>
            ELSE NoColor

\* img.mean(axis=(0, 1)) cut to integers, over the pixels of a region
RECURSIVE channel_sum(_, _, _)
channel_sum(pixels, c, n) ==
    IF n = 0 THEN 0 ELSE pixels[n][c] + channel_sum(pixels, c, n - 1)

get_average_color(pixels) ==
    <<channel_sum(pixels, 1, Len(pixels)) \div Len(pixels),
      channel_sum(pixels, 2, Len(pixels)) \div Len(pixels),
      channel_sum(pixels, 3, Len(pixels)) \div Len(pixels)>>

\* detect_background_color on an image smaller than the corner sample: each
\* of the four corner samples is the whole image.
detect_background_color(img) == get_average_color(img)

AUTO == <<"a", "u", "t", "o">>
WHITE == <<"w", "h", "i", "t", "e">>
BLACK == <<"b", "l", "a", "c", "k">>
NONE == <<"n", "o", "n", "e">>

\* parse_background_color: the colour it returns and the lines it writes to
\* stderr.
parse_background_color(bg_spec, img) ==
    IF bg_spec = NoneSpec THEN [color |-> NoColor, stderr |-> <<>>]
    ELSE IF lower(bg_spec) = NONE THEN [color |-> NoColor, stderr |-> <<>>]
    ELSE LET s == strip(lower(bg_spec))
         IN IF s = AUTO
            THEN [color |-> detect_background_color(img), stderr |-> <<>>]
            ELSE IF s = WHITE THEN [color |-> <<255, 255, 255>>, stderr |-> <<>>]
            ELSE IF s = BLACK THEN [color |-> <<0, 0, 0>>, stderr |-> <<>>]
            ELSE IF comma_rgb(s) # NoColor
            THEN [color |-> comma_rgb(s), stderr |-> <<>>]
            ELSE [color |-> NoColor,
                  stderr |-> <<"WARNING: Could not parse background color">>]

-----------------------------------------------------------------------------
(* Regions, background cells and the tint of a cell *)

REGION_COLORS ==
    [pink |-> <<244, 114, 182>>, black |-> <<0, 0, 0>>,
     yellow |-> <<255, 255, 0>>, white |-> <<255, 255, 255>>]

RegionOrder == <<"pink", "black", "yellow", "white">>

NoRegion == "None"

\* color_distance squared: the sum under its square root.
squared_distance(c1, c2) ==
    (c1[1] - c2[1]) * (c1[1] - c2[1])
    + (c1[2] - c2[2]) * (c1[2] - c2[2])
    + (c1[3] - c2[3]) * (c1[3] - c2[3])

RegionTolerance == 80  \* classify_region: default of tolerance
BgTolerance == 30      \* is_background_cell: default of tolerance

\* classify_region, after the first n regions of REGION_COLORS: the best
\* match so far and its distance (squared; -1 is infinity).  A distance is
\* below another iff its square is.
RECURSIVE classify_upto(_, _)
classify_upto(cell_color, n) ==
    IF n = 0 THEN [best_match |-> NoRegion, best_distance |-> 0 - 1]
    ELSE LET prev == classify_upto(cell_color, n - 1)
             dist == squared_distance(cell_color, REGION_COLORS[RegionOrder[n]])
         IN IF /\ (prev.best_distance < 0 \/ dist < prev.best_distance)
               /\ dist < RegionTolerance * RegionTolerance
            THEN [best_match |-> RegionOrder[n], best_distance |-> dist]
            ELSE prev

classify_region(cell_color) == classify_upto(cell_color, Len(RegionOrder)).best_match

\* region_tints of create_mosaic: None, or the dict without 'white'
NoRegionTints == [enabled |-> FALSE]
region_tints_of(region_tint) ==
    IF region_tint
    THEN [enabled |-> TRUE, pink |-> REGION_COLORS.pink, black |-> REGION_COLORS.black,
          yellow |-> REGION_COLORS.yellow]
    ELSE NoRegionTints

\* get_region_tint: region_tints.get(region)
get_region_tint(region, region_tints) ==
    IF region \in DOMAIN region_tints \ {"enabled"} THEN region_tints[region]
    ELSE NoColor

\* The number of pixels of the region within the tolerance of bg_color:
\* sqrt(d2) <= tolerance iff d2 <= tolerance^2.
RECURSIVE matching_pixels(_, _, _, _)
matching_pixels(region, bg_color, tolerance, n) ==
    IF n = 0 THEN 0
    ELSE matching_pixels(region, bg_color, tolerance, n - 1)
         + (IF squared_distance(region[n], bg_color) <= tolerance * tolerance
            THEN 1 ELSE 0)

\* is_background_cell on the pixels of a cell, with the threshold written as
\* the fraction num/den: match_ratio >= threshold.
is_background_pixels_strict(region, bg_color, num, den, tolerance) ==
    matching_pixels(region, bg_color, tolerance, Len(region)) * den
        > num * Len(region)

is_background_pixels(region, bg_color, num, den, tolerance) ==
    matching_pixels(region, bg_color, tolerance, Len(region)) * den
        >= num * Len(region)

\* The tint branch of the grid loop with the global tint tried first.
cell_tint_global_first(target_color, region_tints, tint_color) ==
    IF tint_color # NoColor THEN tint_color
    ELSE IF region_tints.enabled
    THEN IF classify_region(target_color) # NoRegion
         THEN get_region_tint(classify_region(target_color), region_tints)
         ELSE NoColor
    ELSE NoColor

\* The tint branch of the grid loop (lines 701-709): the colour the tile of
\* the cell is tinted with, or NoColor if apply_tint is not called.
cell_tint(target_color, region_tints, tint_color) ==
    IF region_tints.enabled
    THEN IF classify_region(target_color) # NoRegion
         THEN get_region_tint(classify_region(target_color), region_tints)
         ELSE NoColor
    ELSE IF tint_color # NoColor THEN tint_color
    ELSE NoColor

-----------------------------------------------------------------------------
(* One cell of a run: create_mosaic resolves its configuration (lines       *)
(* 607-629) and the body of the grid loop processes one cell (lines         *)
(* 674-716) of a target that is this cell, with a tile of one pixel.  Here  *)
(* "target" holds the pixels of the cell, "colors" the pixel of the tile    *)
(* and "output" the resolved configuration, stderr and the output cell.     *)

CellSize == 20         \* pixels of the cell

Chars2 == <<"1", ",", "2">>

BgSpecs ==
    {NoneSpec, AUTO, WHITE, BLACK, NONE,
     <<"N", "o", "n", "e">>,
     <<" ", "W", "h", "i", "t", "e", " ">>,
     <<"2", "5", "5", ",", "2", "5", "5", ",", "2", "5", "5">>,
     <<"1", "0", ",", " ", "2", "0", ",", " ", "2", "0">>,
     <<"2", "5", "6", ",", "0", ",", "0">>,
     Chars2,
     <<"b", "e", "i", "g", "e">>,
     <<>>}

ValidBgSpecs ==
    {NoneSpec, AUTO, WHITE, BLACK, NONE,
     <<"N", "o", "n", "e">>,
     <<" ", "W", "h", "i", "t", "e", " ">>,
     <<"2", "5", "5", ",", "2", "5", "5", ",", "2", "5", "5">>,
     <<"1", "0", ",", " ", "2", "0", ",", " ", "2", "0">>}

TintSpecs ==
    {NoneSpec, <<>>,
     <<"F", "F", "0", "0", "0", "0">>,
     <<"#", "0", "2", "1", "3", "5", "b">>,
     <<"2", ",", "1", "9", ",", "9", "1">>,
     <<"3", "0", "0", ",", "0", ",", "0">>,
     Chars2,
     <<"r", "e", "d">>,
     <<"G", "G", "0", "0", "0", "0">>,
     <<"F", "F", "0", "0">>}

ValidTintSpecs ==
    {<<"F", "F", "0", "0", "0", "0">>,
     <<"#", "0", "2", "1", "3", "5", "b">>,
     <<"2", ",", "1", "9", ",", "9", "1">>}

\* A cell of k pixels of colour a followed by pixels of colour b.
MakeCell(a, k, b) == [i \in 1..CellSize |-> IF i <= k THEN a ELSE b]

SampleCells ==
    {MakeCell(a, k, b) :
        a \in {<<255, 255, 255>>, <<255, 255, 225>>, <<255, 255, 224>>},
        k \in {0, CellSize - 3, CellSize - 2, CellSize - 1, CellSize},
        b \in {<<244, 114, 182>>, <<0, 0, 0>>, <<255, 255, 0>>, <<0, 255, 0>>}}

\* bg_threshold as a fraction <<num, den>>: 0.9 and the default 0.7
Thresholds == {<<9, 10>>, <<7, 10>>}

CellConfigs ==
    [background : BgSpecs, tint : TintSpecs, region_tint : BOOLEAN,
     tint_alpha : {AlphaScale}, blend_mode : {"normal"},
     bg_threshold : Thresholds]

TilePixel == <<128, 64, 200>>

Unresolved ==
    [bg_color |-> NoColor, tint_color |-> NoColor, region_tints |-> NoRegionTints,
     stderr |-> <<>>, cell |-> Blank]

CellInit ==
    /\ pc = "CONFIGURE"
    /\ err = "none"
    /\ args \in CellConfigs
    /\ target \in {[pixels |-> c] : c \in SampleCells}
    /\ tiles_dir = NoDir
    /\ colors = <<TilePixel>>
    /\ usage_count = <<0>>
    /\ recent_usage = << <<>> >>
    /\ unused_tiles = {1}
    /\ allow_reuse = TRUE
    /\ max_reuse = 0
    /\ gx = 0 /\ gy = 0
    /\ output = Unresolved
    /\ bg_cells_skipped = 0
    /\ cheated = FALSE
    /\ saved = FALSE
    /\ log = <<>>
    /\ visited = <<>>

\* create_mosaic, lines 607-629
Configure ==
    /\ pc = "CONFIGURE"
    /\ pc' = "CELL"
    /\ output' =
          [bg_color |-> parse_background_color(args.background, target.pixels).color,
           stderr |-> parse_background_color(args.background, target.pixels).stderr,
           tint_color |-> IF args.tint # NoneSpec /\ args.tint # <<>>
                          THEN parse_hex_color(args.tint) ELSE NoColor,
           region_tints |-> region_tints_of(args.region_tint),
           cell |-> Blank]
    /\ UNCHANGED <<err, args, target, tiles_dir, poolVars, gx, gy,
                   bg_cells_skipped, cheated, saved, log, visited>>

\* The tile of the cell after the tint branch: its pixel, and the colour
\* apply_tint was called with (NoColor if it was not called).
Tinted(tile, tint) ==
    [kind |-> "tile",
     pixel |-> IF tint = NoColor THEN tile
               ELSE apply_tint(tile, tint, args.tint_alpha, args.blend_mode),
     tinted_with |-> tint]

\* The body of the grid loop, lines 674-716
ProcessCell ==
    /\ pc = "CELL"
    /\ pc' = "CELL_DONE"
    /\ IF /\ output.bg_color # NoColor
          /\ is_background_pixels(target.pixels, output.bg_color,
                                  args.bg_threshold[1], args.bg_threshold[2],
                                  BgTolerance)
       THEN /\ output' = [output EXCEPT !.cell = BgFill(output.bg_color)]
            /\ bg_cells_skipped' = bg_cells_skipped + 1
       ELSE /\ output' = [output EXCEPT !.cell =
                            Tinted(colors[1],
                                   cell_tint(get_average_color(target.pixels),
                                             output.region_tints,
                                             output.tint_color))]
            /\ bg_cells_skipped' = bg_cells_skipped
    /\ UNCHANGED <<err, args, target, tiles_dir, poolVars, gx, gy,
                   cheated, saved, log, visited>>

CellNext == Configure \/ ProcessCell

CellSpec == CellInit /\ [][CellNext]_vars

-----------------------------------------------------------------------------
(* The TilePool of src/scripts/album-cover-mosaic/create_mosaic.py, which    *)
(* has no diversity weight, next to the TilePool above.  Both pools are      *)
(* built over the same tiles with the same configuration and receive the     *)
(* same calls of find_best_match; a call that draws gets the same value of   *)
(* random.random() in both.  The album pool is a record held in "output":    *)
(* its configuration, its colours, its bookkeeping and the tile its last     *)
(* call returned.                                                            *)

MaxDraw == 3           \* random.random() delivers u / (MaxDraw + 1), u in 0..MaxDraw

\* color_distance of the album script
album_color_distance(c1, c2) ==
    ISqrt((c1[1] - c2[1]) * (c1[1] - c2[1])
        + (c1[2] - c2[2]) * (c1[2] - c2[2])
        + (c1[3] - c2[3]) * (c1[3] - c2[3]))

\* distances of the album find_best_match, before the sort
album_distances(pool, target_color) ==
    [i \in 1..Len(pool.colors) |-> album_color_distance(target_color, pool.colors[i])]

album_need_validation(pool) ==
    (~pool.allow_reuse) \/ (pool.max_reuse > 0) \/ (pool.min_reuse_distance > 0)

\* The album _is_valid_position without its loop over the tile's history.
album_is_valid_position_no_distance(pool, tile_idx, position) ==
    ~(pool.max_reuse > 0 /\ pool.usage_count[tile_idx] >= pool.max_reuse)

\* TilePool._is_valid_position of the album script
album_is_valid_position(pool, tile_idx, position) ==
    /\ ~(pool.max_reuse > 0 /\ pool.usage_count[tile_idx] >= pool.max_reuse)
    /\ \A k \in 1..Len(pool.recent_usage[tile_idx]) :
          ~(Manhattan(position, pool.recent_usage[tile_idx][k]) < pool.min_reuse_distance)

\* TilePool._record_usage of the album script: the pool after it.
album_record_usage(pool, tile_idx, position) ==
    [pool EXCEPT !.recent_usage[tile_idx] = AppendTrimmed(@, position),
                 !.usage_count[tile_idx] = @ + 1,
                 !.returned = tile_idx]

\* valid_candidates of the album find_best_match: the loop breaks at top_n.
album_valid_candidates(pool, sorted, position, top_n) ==
    LET Valid(i) == album_is_valid_position(pool, i, position)
        v == SelectSeq(sorted, Valid)
    IN SubSeq(v, 1, Min(top_n, Len(v)))

album_least_used_idx(pool) ==
    CHOOSE i \in DOMAIN pool.colors :
        \A j \in DOMAIN pool.colors :
            \/ pool.usage_count[i] < pool.usage_count[j]
            \/ (pool.usage_count[i] = pool.usage_count[j] /\ i <= j)

\* The weight 1.0 / (1 + i * 0.5) of candidate i (from 0), multiplied by 60.
choice_weight(i) == 120 \div (2 + i)

RECURSIVE cum_weight(_)
cum_weight(k) == IF k < 0 THEN 0 ELSE cum_weight(k - 1) + choice_weight(k)

\* random.choices(range(n), weights=weights, k=1)[0] when random.random()
\* delivers u / (MaxDraw + 1): the bisection of the cumulative weights at
\* random() * total, which stops at the last candidate.  The result counts
\* from 1.
drawn_index(u, n) ==
    1 + Min(n - 1,
            Cardinality({k \in 0..(n - 1) :
                            cum_weight(k) * (MaxDraw + 1) <= u * cum_weight(n - 1)}))

\* TilePool.find_best_match of the album script: the pool after the call.
album_find_best_match(pool, target_color, position, top_n, randomize, u) ==
    LET dist == album_distances(pool, target_color)
        sorted == sorted_prefix(dist, Len(dist))
        c == album_valid_candidates(pool, sorted, position, top_n)
    IN IF ~album_need_validation(pool)
       THEN album_record_usage(pool, sorted[1], position)
       ELSE IF Len(c) > 0
       THEN IF randomize /\ Len(c) > 1
            THEN album_record_usage(pool, c[drawn_index(u, Len(c))], position)
            ELSE album_record_usage(pool, c[1], position)
       ELSE album_record_usage(pool, album_least_used_idx(pool), position)

\* The tile find_best_match of the TilePool above picks when random.random()
\* delivers u / (MaxDraw + 1).
drawn_tile(target_color, position, top_n, randomize, u) ==
    LET sel == best_match(target_color, position, top_n, randomize)
        c == valid_candidates(sort_by_distance(adjusted_distances(target_color)),
                              position, top_n)
    IN IF sel.path = "candidate" /\ randomize /\ Len(c) > 1
       THEN c[drawn_index(u, Len(c))]
       ELSE CHOOSE i \in sel.choices : TRUE

\* The two pools as their constructors return them.
TwinInit ==
    /\ pc = "TWIN"
    /\ err = "none"
    /\ args \in PoolArgs
    /\ target = PoolArea
    /\ tiles_dir \in {Dir(f) : f \in SeqsUpTo(Palette, MaxFiles) \ {<<>>}}
    /\ colors = loaded_colors(tiles_dir.files)
    /\ usage_count = [i \in 1..Len(colors) |-> 0]
    /\ recent_usage = [i \in 1..Len(colors) |-> <<>>]
    /\ unused_tiles = 1..Len(colors)
    /\ allow_reuse = args.allow_reuse
    /\ max_reuse = args.max_reuse
    /\ gx = 0 /\ gy = 0
    /\ output = [allow_reuse |-> args.allow_reuse,
                 max_reuse |-> args.max_reuse,
                 min_reuse_distance |-> args.min_reuse_distance,
                 colors |-> colors,
                 usage_count |-> [i \in 1..Len(colors) |-> 0],
                 recent_usage |-> [i \in 1..Len(colors) |-> <<>>],
                 returned |-> 0]
    /\ bg_cells_skipped = 0
    /\ cheated = FALSE
    /\ saved = FALSE
    /\ log = <<>>
    /\ visited = <<>>

\* The same call of find_best_match on both pools.
TwinCall(target_color, position, top_n, randomize, u) ==
    /\ pc = "TWIN"
    /\ Len(log) < MaxCalls
    /\ find_best_match(target_color, position, top_n, randomize,
                       drawn_tile(target_color, position, top_n, randomize, u))
    /\ output' = album_find_best_match(output, target_color, position, top_n,
                                       randomize, u)
    /\ UNCHANGED <<pc, err, args, target, tiles_dir, colors, allow_reuse, max_reuse,
                   gx, gy, bg_cells_skipped, cheated, saved, visited>>

TwinNext ==
    \E c \in Palette, p \in PoolPositions, n \in PoolTopNs, r \in BOOLEAN,
       u \in 0..MaxDraw : TwinCall(c, p, n, r, u)

TwinSpec == TwinInit /\ [][TwinNext]_vars

-----------------------------------------------------------------------------
(* Properties *)

LogIdx == 1..Len(log)
SameTile(i, j) == i < j /\ log[i].tile = log[j].tile

\* Placement i of a tile was still in the tile's recent_usage when
\* placement j of the same tile was made: the history then held the
\* log[j].kept latest placements of the tile.
Remembered(i, j) == log[j].nth - log[i].nth <= log[j].kept

\* C1 as stated: with min_reuse_distance > 0, any two positions at which the
\* same tile was placed are at Manhattan distance >= min_reuse_distance,
\* unless the later placement was made by the least-used fallback; for every
\* earlier placement, also those no longer in recent_usage.
C1_ReuseDistanceAllPlacements ==
    args.min_reuse_distance > 0 =>
        \A j \in LogIdx : \A i \in 1..(j - 1) :
            (SameTile(i, j) /\ log[j].path # "fallback")
                => Manhattan(log[i].pos, log[j].pos) >= args.min_reuse_distance

\* C1 as amended: the distance is kept to every earlier placement of the tile
\* that was still in the tile's recent_usage when the later placement was
\* made, and recent_usage always holds at least the HistoryKeep latest
\* placements of the tile (all of them while there are fewer).
C1_ReuseDistanceRemembered ==
    args.min_reuse_distance > 0 =>
        \A j \in LogIdx :
            /\ log[j].kept >= Min(log[j].nth - 1, HistoryKeep)
            /\ \A i \in 1..(j - 1) :
                (SameTile(i, j) /\ log[j].path # "fallback" /\ Remembered(i, j))
                    => Manhattan(log[i].pos, log[j].pos) >= args.min_reuse_distance

\* C1 witness: a tile placed a second time, not by the fallback, while its
\* first placement is still remembered, under a positive reuse distance.
C1_Witness ==
    /\ args.min_reuse_distance > 0
    /\ \E j \in LogIdx : \E i \in 1..(j - 1) :
          SameTile(i, j) /\ log[j].path # "fallback" /\ Remembered(i, j)

\* The tiles the least-used fallback has chosen at least once.
FallbackTiles == {log[j].tile : j \in {k \in LogIdx : log[k].path = "fallback"}}

\* C2: whenever max_reuse > 0, every tile never chosen by the least-used
\* fallback has usage_count <= max_reuse, and no selection that does not take
\* the fallback raises a usage_count above max_reuse.
C2_MaxReuse ==
    max_reuse > 0 =>
        /\ \A i \in TileIdx : i \notin FallbackTiles => usage_count[i] <= max_reuse
        /\ \A j \in LogIdx : log[j].path # "fallback" => log[j].nth <= max_reuse

\* C2 witness: a tile used max_reuse times without the fallback, and another
\* placement refused to it since (the fallback was taken).
C2_Witness ==
    /\ max_reuse > 0
    /\ \E i \in TileIdx : i \notin FallbackTiles /\ usage_count[i] = max_reuse
    /\ FallbackTiles # {}

PostGrid == {"CHEAT_BLEND", "SAVE", "DONE"}
NumCells == target.grid_w * target.grid_h
AllFilled == \A p \in GridOf(target) : output[p] # Blank

\* C3 as stated: a mosaic built with allow_reuse = false, no reuse distance
\* and no max_reuse over as many cells as the pool has tiles (and no
\* background skipping) ends GRID_FILL with every tile used exactly once.
C3_EachTileUsedOnce ==
    (/\ pc \in PostGrid
     /\ ~args.allow_reuse
     /\ args.min_reuse_distance = 0
     /\ args.max_reuse = 0
     /\ args.background = NoColor
     /\ NumCells = NumTiles)
        => \A i \in TileIdx : usage_count[i] = 1

\* The step processes a cell that is classified as background.
BackgroundStep ==
    /\ Len(visited') = Len(visited) + 1
    /\ visited'[Len(visited')].bg

\* C4: the processing of a cell classified as background fills the whole
\* output cell with bg_color, leaves every other cell alone, and does not
\* touch the pool: usage_count, recent_usage and unused_tiles are unchanged
\* and no placement is made.
C4_BackgroundLeavesPool ==
    [][BackgroundStep =>
        /\ output' = [output EXCEPT ![<<gx, gy>>] = BgFill(args.background)]
        /\ UNCHANGED <<usage_count, recent_usage, unused_tiles, log>>]_vars

\* C4 witness: a background cell was processed after a tile had been placed.
C4_Witness ==
    /\ Len(log) > 0
    /\ Len(visited) > 1
    /\ visited[Len(visited)].bg
    /\ output[visited[Len(visited)].pos] = BgFill(args.background)

\* The k-th cell of the grid in row-major order.
RowMajor(k) == <<(k - 1) % target.grid_w, (k - 1) \div target.grid_w>>
CellNumber(p) == p[2] * target.grid_w + p[1] + 1

\* The cells processed so far are the first cells of the grid in row-major
\* order, each once; each of them holds either a tile of the pool or the
\* background fill, the others are blank; after the loop none is blank.
GridResolved ==
    pc \in {"GRID_FILL"} \cup PostGrid =>
        /\ \A k \in 1..Len(visited) :
              /\ visited[k].pos = RowMajor(k)
              /\ output[visited[k].pos].kind = IF visited[k].bg THEN "bg" ELSE "tile"
        /\ \A p \in GridOf(target) :
              (output[p] = Blank) = (CellNumber(p) > Len(visited))
        /\ \A j \in LogIdx :
              log[j].tile \in TileIdx /\ output[log[j].pos] = TileFill(log[j].tile)
        /\ bg_cells_skipped + Len(log) = Len(visited)
        /\ IF pc = "GRID_FILL"
           THEN Len(visited) < NumCells /\ <<gx, gy>> = RowMajor(Len(visited) + 1)
           ELSE Len(visited) = NumCells

\* C5: GRID_FILL visits every cell exactly once in row-major order and
\* resolves each to exactly one of a tile and a background fill; with a
\* pool that is not empty it ends, and has then left no cell blank.
C5_GridTotal ==
    /\ []GridResolved
    /\ (pc = "GRID_FILL" /\ NumTiles > 0) ~> (pc \in PostGrid /\ AllFilled)

\* C5 witness: a finished grid of more than one row and column that holds
\* both tiles and background fills.
C5_Witness ==
    /\ pc = "DONE"
    /\ target.grid_w > 1 /\ target.grid_h > 1
    /\ AllFilled
    /\ \E p, q \in GridOf(target) : output[p].kind = "tile" /\ output[q].kind = "bg"

\* C6: find_best_match with randomize = false is a function of the pool
\* state, the target colour, the position and top_n: in every state a pool
\* can reach it has exactly one tile to return, so that two runs of the same
\* sequence of such calls on pools of the same tiles and configuration
\* assign the same tiles.
C6_Deterministic ==
    \A c \in Palette, p \in PoolPositions, n \in PoolTopNs :
        Cardinality(best_match(c, p, n, FALSE).choices) = 1

\* C6 witness: a call with randomize = false has placed a tile where it had
\* several valid candidates to pick from.
C6_Witness ==
    /\ Len(log) > 0
    /\ ~log[Len(log)].randomize
    /\ log[Len(log)].path = "candidate"
    /\ log[Len(log)].among > 1

\* With a diversity weight, of two tiles of the same average colour the one
\* used less has the strictly lower adjusted distance, for every target colour.
LessUsedIsCloser ==
    (args.diversity_weight > 0 /\ NumTiles > 0) =>
        \A c \in Palette :
            LET adj == adjusted_distances(c)
            IN \A i, j \in TileIdx :
                  (colors[i] = colors[j] /\ usage_count[i] < usage_count[j])
                      => adj[i] < adj[j]

\* The step is a find_best_match with a diversity weight and no reuse
\* constraint active.
UnconstrainedMatchStep ==
    /\ Len(log') = Len(log) + 1
    /\ ~args.no_color_match
    /\ args.diversity_weight > 0
    /\ ~need_validation

\* C7: with diversity_weight > 0 the less used of two tiles of the same colour
\* has the strictly lower adjusted distance, and with no reuse constraint
\* active find_best_match never selects a tile while another tile of the same
\* colour has been used less.
C7_DiversityPrefersLessUsed ==
    /\ []LessUsedIsCloser
    /\ [][UnconstrainedMatchStep =>
            \A i \in TileIdx :
                colors[i] = colors[log'[Len(log')].tile]
                    => usage_count[i] >= usage_count[log'[Len(log')].tile]]_vars

\* C7 witness: the unconstrained best match has just passed over a tile of
\* the right colour that was used more and taken its less used twin.
C7_Witness ==
    /\ args.diversity_weight > 0
    /\ ~args.no_color_match
    /\ ~need_validation
    /\ Len(log) > 1
    /\ \E i \in TileIdx :
          /\ i < log[Len(log)].tile
          /\ colors[i] = colors[log[Len(log)].tile]
          /\ usage_count[i] >= usage_count[log[Len(log)].tile]

\* The moves of pc that follow the order of the phases.
PhaseMoves ==
    {<<"LOAD_TARGET", "LOAD_TILES">>, <<"LOAD_TARGET", "FAILED">>,
     <<"LOAD_TILES", "CAPACITY_CHECK">>, <<"LOAD_TILES", "FAILED">>,
     <<"CAPACITY_CHECK", "GRID_FILL">>, <<"CAPACITY_CHECK", "FAILED">>,
     <<"GRID_FILL", "GRID_FILL">>, <<"GRID_FILL", "FAILED">>,
     <<"GRID_FILL", "CHEAT_BLEND">>, <<"GRID_FILL", "SAVE">>,
     <<"CHEAT_BLEND", "SAVE">>, <<"SAVE", "DONE">>}

\* C8: the run passes through LOAD_TARGET, LOAD_TILES (with its capacity
\* check), GRID_FILL, CHEAT_BLEND if cheat_alpha > 0, SAVE and DONE in this
\* order only; tiles are selected only in GRID_FILL, on the constructed pool;
\* the cheat blend runs if and only if cheat_alpha > 0 and only on a
\* completely filled grid; the canvas is saved only after that.
C8_PhaseOrder ==
    /\ [][/\ <<pc, pc'>> \in PhaseMoves
          /\ (log' # log \/ visited' # visited) => pc = "GRID_FILL"
          /\ colors' # colors => pc = "LOAD_TILES"
          /\ pc' = "CHEAT_BLEND" => (args.cheat_alpha > 0 /\ AllFilled')
          /\ (pc = "GRID_FILL" /\ pc' = "SAVE") => (args.cheat_alpha = 0 /\ AllFilled')
          /\ cheated' # cheated => (pc = "CHEAT_BLEND" /\ AllFilled)
          /\ saved' # saved =>
                (pc = "SAVE" /\ AllFilled /\ (cheated <=> args.cheat_alpha > 0))]_vars
    /\ [](pc = "DONE" => (saved /\ (cheated <=> args.cheat_alpha > 0)))

\* C8 witness: a run that is done, with the cheat blend applied.
C8_Witness == pc = "DONE" /\ cheated /\ saved /\ Len(log) > 0

\* C9: if the target image cannot be loaded the run fails in LOAD_TARGET;
\* no pool is constructed, no cell processed, no usage recorded, nothing saved.
C9_UnreadableTargetIsFatal ==
    target = Unreadable =>
        /\ pc \in {"LOAD_TARGET", "FAILED"}
        /\ pc = "FAILED" => err = "LoadError"
        /\ colors = <<>> /\ usage_count = <<>> /\ recent_usage = <<>>
        /\ unused_tiles = {}
        /\ output = <<>> /\ visited = <<>> /\ log = <<>>
        /\ ~cheated /\ ~saved

\* C9 witness: the run has failed on an unreadable target.
C9_Witness == target = Unreadable /\ pc = "FAILED"

CeilDiv(a, b) == (a + b - 1) \div b

\* C10 as stated: the capacity check never fails; when the grid has more
\* cells than the pool has tiles and allow_reuse is false it sets the pool's
\* allow_reuse to true and max_reuse to at least ceil(cells / tiles), so that
\* tiles * max_reuse >= cells; otherwise it leaves both as configured.
C10_CapacityRelaxation ==
    [][pc = "CAPACITY_CHECK" =>
        /\ pc' = "GRID_FILL"
        /\ IF NumCells > NumTiles /\ ~args.allow_reuse
           THEN /\ allow_reuse'
                /\ max_reuse' >= CeilDiv(NumCells, NumTiles)
                /\ NumTiles * max_reuse' >= NumCells
           ELSE /\ allow_reuse' = args.allow_reuse
                /\ max_reuse' = args.max_reuse]_vars

\* C11 as stated: pool construction fails whenever no tile was prepared,
\* so the capacity check and every selection run on a pool of at least one
\* tile.
C11_PoolNeverEmpty ==
    pc \in {"CAPACITY_CHECK", "GRID_FILL"} \cup PostGrid => NumTiles > 0

\* load_and_prepare_tile returned a tile for the file.
IsPrepared(f) == f \in Palette

\* C12 as stated: a file that fails to decode, crop or resize is skipped;
\* pool construction over a directory with at least one good file succeeds
\* and leaves exactly the prepared tiles, in enumeration order, with the
\* bookkeeping of the pool aligned to them.
C12_FailedFileIsSkipped ==
    [][(/\ pc = "LOAD_TILES"
        /\ tiles_dir.exists
        /\ \E k \in 1..Len(tiles_dir.files) : IsPrepared(tiles_dir.files[k]))
           => /\ pc' = "CAPACITY_CHECK"
              /\ colors' = SelectSeq(tiles_dir.files, IsPrepared)
              /\ DOMAIN usage_count' = DOMAIN colors'
              /\ DOMAIN recent_usage' = DOMAIN colors'
              /\ unused_tiles' = DOMAIN colors']_vars

\* The selections of the run that took the least-used fallback.
FallbacksTaken == Cardinality({j \in LogIdx : log[j].path = "fallback"})

\* What the caller of the run can tell about fallbacks from what the run
\* returned: a count if the result carries one.
FallbacksReported(result) ==
    IF "fallbacks" \in DOMAIN result THEN result.fallbacks ELSE 0

\* C13 as stated: what a finished run returns tells how often the
\* least-used fallback was taken.
C13_FallbackObservable ==
    pc = "DONE" => FallbacksReported(run_result) = FallbacksTaken

\* The step is one selection: a call of find_best_match or find_random_tile.
SelectionStep == Len(log') = Len(log) + 1
\* The tile and the position of the selection a SelectionStep makes.
Selected == log'[Len(log')]

RECURSIVE SumUpTo(_, _)
SumUpTo(f, n) == IF n = 0 THEN 0 ELSE f[n] + SumUpTo(f, n - 1)
TotalUsage == SumUpTo(usage_count, NumTiles)

\* C16: every selection, on every path, returns a tile of the pool and
\* records exactly one usage: the tile's usage_count grows by 1, the position
\* becomes the last entry of its history, and count and history of every
\* other tile stay; no usage_count ever decreases; the usage counts add up
\* to the number of selections, which at the end of a run is the number of
\* cells less the background cells.
C16_OneUsagePerSelection ==
    /\ [][SelectionStep =>
            /\ Selected.tile \in TileIdx
            /\ usage_count' = [usage_count EXCEPT ![Selected.tile] = @ + 1]
            /\ recent_usage'[Selected.tile][Len(recent_usage'[Selected.tile])]
                   = Selected.pos
            /\ Len(recent_usage[Selected.tile]) < 100 =>
                   recent_usage'[Selected.tile]
                       = Append(recent_usage[Selected.tile], Selected.pos)
            /\ \A i \in TileIdx \ {Selected.tile} :
                   recent_usage'[i] = recent_usage[i]]_vars
    /\ [][\A i \in TileIdx : usage_count'[i] >= usage_count[i]]_vars
    /\ [](TotalUsage = Len(log))
    /\ [](pc \in PostGrid => TotalUsage = NumCells - bg_cells_skipped)

\* C16 witness: a finished run with a background cell, a selection that
\* took the fallback and one that did not.
C16_Witness ==
    /\ pc = "DONE"
    /\ bg_cells_skipped > 0
    /\ \E j, k \in LogIdx : log[j].path = "fallback" /\ log[k].path # "fallback"

\* The positions at which the log has tile i, in the order of placement.
RECURSIVE PositionsOf(_, _)
PositionsOf(i, n) ==
    IF n = 0 THEN <<>>
    ELSE IF log[n].tile = i
    THEN Append(PositionsOf(i, n - 1), log[n].pos)
    ELSE PositionsOf(i, n - 1)

LastOf(seq, n) == SubSeq(seq, Len(seq) - n + 1, Len(seq))

\* C17: a tile's recent_usage never holds more than 100 positions; the
\* append that makes it 101 long cuts it to the 50 latest positions, in
\* placement order; any other append keeps everything; so the history is
\* always the tile's latest placements, in order.
C17_BoundedHistory ==
    /\ [](\A i \in TileIdx : Len(recent_usage[i]) <= 100)
    /\ [](\A i \in TileIdx :
            recent_usage[i]
                = LastOf(PositionsOf(i, Len(log)), Len(recent_usage[i])))
    /\ [][SelectionStep =>
            LET all == Append(recent_usage[Selected.tile], Selected.pos)
            IN recent_usage'[Selected.tile]
                   = IF Len(all) > 100 THEN LastOf(all, 50) ELSE all]_vars

\* C17 witness: the history of a tile has just been cut.
C17_Witness ==
    \E i \in TileIdx : usage_count[i] = 101 /\ Len(recent_usage[i]) = 50

\* C18 as stated: a tile is in the unused set if and only if it was never
\* used, whichever operations made the selections.
C18_UnusedIsNeverUsed ==
    \A i \in TileIdx : (i \in unused_tiles) <=> (usage_count[i] = 0)

\* C19 as stated: find_random_tile returns a never-used tile valid at the
\* position if there is one, else a tile valid at the position if there is
\* one, else the least-used tile of the lowest index.
C19_RandomPreferenceOrder ==
    [][(SelectionStep /\ Selected.op = "find_random_tile") =>
        LET valid == {i \in TileIdx : is_valid_position(i, Selected.pos)}
            fresh == {i \in valid : usage_count[i] = 0}
        IN IF fresh # {} THEN Selected.tile \in fresh
           ELSE IF valid # {} THEN Selected.tile \in valid
           ELSE \A j \in TileIdx :
                   \/ usage_count[Selected.tile] < usage_count[j]
                   \/ (usage_count[Selected.tile] = usage_count[j]
                       /\ Selected.tile <= j)]_vars

Blended(op) == pc = "BLENDED" /\ output.op = op

\* C14: with alpha = 0 apply_tint returns the tile pixel unchanged, in every
\* blend mode and for every channel value 0..255; with alpha = 1 in normal
\* mode it returns the tint colour, for every channel value of the tint.
C14_BlendIdentity ==
    Blended("apply_tint") =>
        /\ args.alpha = 0 => output.pixel = args.pixel
        /\ args.alpha = AlphaScale /\ args.blend_mode = "normal"
               => output.pixel = args.over

\* Scenario C: tint FF0000 at alpha 1 in normal mode over a coloured pixel.
C14_Witness ==
    /\ Blended("apply_tint")
    /\ args.alpha = AlphaScale
    /\ args.blend_mode = "normal"
    /\ args.pixel = <<128, 64, 200>>
    /\ args.over = <<255, 0, 0>>
    /\ output.pixel = <<255, 0, 0>>

\* The blended pixel the call rescaled.
BlendedFloat ==
    IF output.op = "apply_tint"
    THEN tint_result(args.pixel, args.over, args.alpha, args.blend_mode)
    ELSE cheat_blended(args.pixel, args.over, args.alpha, args.blend_mode)

Rescaled(x) == F32Mul(x, F32FromInt(255))

ClampedFrom(blended) ==
    \A c \in 1..3 :
        /\ output.pixel[c] \in 0..255
        /\ F32Less(F32FromInt(255), Rescaled(blended[c])) => output.pixel[c] = 255
        /\ F32Less(Rescaled(blended[c]), F32Zero) => output.pixel[c] = 0

\* C15: every channel that apply_tint or the cheat blend produces lies in
\* 0..255, and a blended value above or below the range comes out as 255 or
\* 0 (clamped), whatever the mode, the alpha and the colours.
C15_ChannelsClamped ==
    pc = "BLENDED" => With(BlendedFloat, ClampedFrom)

\* An alpha above 1: one channel of the blend overshoots the range and
\* another undershoots it.
C15_Witness ==
    /\ pc = "BLENDED"
    /\ args.alpha > AlphaScale
    /\ \E c \in 1..3 : /\ F32Less(F32FromInt(255), Rescaled(BlendedFloat[c]))
                        /\ output.pixel[c] = 255
    /\ \E c \in 1..3 : /\ F32Less(Rescaled(BlendedFloat[c]), F32Zero)
                        /\ output.pixel[c] = 0

\* The tiles valid at position p, and the place of tile i among them in
\* ascending order of the adjusted distances adj (0 is the best), equal
\* distances in pool order.
ValidAt(p) == {i \in TileIdx : is_valid_position(i, p)}
RankAmong(S, adj, i) ==
    Cardinality({j \in S : adj[j] < adj[i] \/ (adj[j] = adj[i] /\ j < i)})

\* C21: in every state a pool can reach, a find_best_match call with a
\* constraint active and a tile valid at the position can only return a valid
\* tile that is among the first min(top_n, number of valid tiles) valid tiles
\* by adjusted distance; with randomize false, or with a single candidate, it
\* can only return the first of them.
C21_CandidatePick ==
    need_validation =>
        \A c \in Palette, p \in PoolPositions, n \in PoolTopNs, r \in BOOLEAN :
            ValidAt(p) # {} =>
                LET adj == adjusted_distances(c)
                    kept == Min(n, Cardinality(ValidAt(p)))
                IN \A chosen \in best_match(c, p, n, r).choices :
                      /\ chosen \in ValidAt(p)
                      /\ RankAmong(ValidAt(p), adj, chosen) < kept
                      /\ (~r \/ kept = 1)
                            => RankAmong(ValidAt(p), adj, chosen) = 0

\* C21 witness: of two valid tiles of one colour, neither used before, a
\* randomized call has taken the second; a later call went to a candidate too.
C21_Witness ==
    /\ Len(log) = 2
    /\ NumTiles = 2
    /\ colors[1] = colors[2]
    /\ log[1].op = "find_best_match" /\ log[1].path = "candidate"
    /\ log[1].randomize /\ log[1].tile = 2
    /\ log[2].op = "find_best_match" /\ log[2].path = "candidate"
    /\ ~log[2].randomize

\* No reuse constraint is configured on the pool.
NoConstraint == allow_reuse /\ max_reuse = 0 /\ args.min_reuse_distance = 0

\* Tile i has the least of the distances adj, and the lowest index among the
\* tiles that have it.
IsGlobalMin(adj, i) ==
    \A j \in TileIdx : adj[i] < adj[j] \/ (adj[i] = adj[j] /\ i <= j)

\* C22: with no constraint active (allow_reuse, max_reuse = 0,
\* min_reuse_distance = 0) find_best_match returns the tile of the least
\* adjusted distance, lowest index among ties, whatever randomize and top_n
\* are; as soon as one of the three conditions fails it takes the validated
\* candidate path (or its fallback) instead.
C22_UnconstrainedPick ==
    /\ [](\A c \in Palette, p \in PoolPositions, n \in PoolTopNs, r \in BOOLEAN :
            LET sel == best_match(c, p, n, r)
            IN IF NoConstraint
               THEN /\ sel.path = "direct"
                    /\ \A chosen \in sel.choices :
                          IsGlobalMin(adjusted_distances(c), chosen)
                    /\ Cardinality(sel.choices) = 1
               ELSE sel.path \in {"candidate", "fallback"})
    /\ [][(SelectionStep /\ Selected.op = "find_best_match")
             => (Selected.path = "direct" <=> NoConstraint)]_vars

\* C22 witness: two unconstrained calls, the first allowed to draw at random,
\* that returned different tiles.
C22_Witness ==
    /\ NoConstraint
    /\ Len(log) = 2
    /\ log[1].op = "find_best_match" /\ log[1].path = "direct" /\ log[1].randomize
    /\ log[2].op = "find_best_match" /\ log[2].path = "direct"
    /\ log[2].tile # log[1].tile

\* A tile has been used more often than max_reuse allows.
OverMaxReuse == max_reuse > 0 /\ \E i \in TileIdx : usage_count[i] > max_reuse

\* A tile sits at two positions closer than min_reuse_distance.
TooClose ==
    \E j, k \in LogIdx :
        /\ j < k
        /\ log[j].tile = log[k].tile
        /\ Manhattan(log[j].pos, log[k].pos) < args.min_reuse_distance

NoFallbackTaken == \A j \in LogIdx : log[j].path # "fallback"

\* Both callers ran their selection before either recorded its usage.
Interleaved ==
    /\ Len(visited) >= 2
    /\ visited[1].step = "select"
    /\ visited[2].step = "select"

\* C23: two selections on one pool can break the reuse rules without taking
\* the fallback only by interleaving: whenever a usage_count exceeds
\* max_reuse, or a tile sits at two positions closer than min_reuse_distance,
\* and no selection took the fallback, both selections had run their
\* validity checks before either recorded its usage.  Selections that record
\* before the next one starts never get there.
C23_RaceNeedsInterleaving ==
    ((OverMaxReuse \/ TooClose) /\ NoFallbackTaken) => Interleaved

\* C23 witness: the state the interleaving reaches on a pool of two tiles:
\* one tile used more often than max_reuse and at two positions too close,
\* and no fallback taken.
C23_Witness ==
    /\ Interleaved
    /\ NumTiles = 2
    /\ OverMaxReuse
    /\ TooClose
    /\ NoFallbackTaken

\* In a create_mosaic run the selection and its recording are one step of
\* the grid loop: the tile a selection took on a validated path was valid in
\* the state the same step recorded it in.
GridLoopIsSerial ==
    [][(SelectionStep /\ Selected.path \in {"candidate", "unused", "valid"})
          => is_valid_position(Selected.tile, Selected.pos)]_vars

\* The cell has been processed and holds a tile.
TileCellDone == pc = "CELL_DONE" /\ output.cell.kind = "tile"

\* The region the average colour of the cell is classified as.
CellRegion == classify_region(get_average_color(target.pixels))

\* C24: with region tinting enabled the tile of a cell is tinted with the
\* colour of the cell's region if that is pink, black or yellow, and is not
\* tinted at all if the cell is unclassified or white, whatever global tint
\* is configured; with region tinting disabled the tile is tinted with the
\* global tint if and only if one was parsed.
C24_TintPrecedence ==
    TileCellDone =>
        LET wanted == IF args.region_tint
                      THEN IF CellRegion \in {"pink", "black", "yellow"}
                           THEN REGION_COLORS[CellRegion]
                           ELSE NoColor
                      ELSE output.tint_color
        IN /\ output.cell.tinted_with = wanted
           /\ output.cell.pixel =
                 IF wanted = NoColor THEN colors[1]
                 ELSE apply_tint(colors[1], wanted, args.tint_alpha, args.blend_mode)

\* C24 witness: region tinting and a global tint are both configured; a
\* pink cell got the pink tint, not the global one.
C24_Witness ==
    /\ TileCellDone
    /\ args.region_tint
    /\ output.tint_color = <<255, 0, 0>>
    /\ CellRegion = "pink"
    /\ output.cell.tinted_with = <<244, 114, 182>>
    /\ output.cell.pixel = <<244, 114, 182>>

BgWarning == "WARNING: Could not parse background color"

\* stderr holds a warning that is not the background warning.
TintWarned == \E k \in 1..Len(output.stderr) : output.stderr[k] # BgWarning
BgWarned == \E k \in 1..Len(output.stderr) : output.stderr[k] = BgWarning

\* C25 as stated: an unparseable background or tint specification disables
\* its feature and is reported by a warning, in both cases; the background
\* literals auto, white, black, "R,G,B" and none resolve to the detected
\* colour, (255,255,255), (0,0,0), the triple and no colour.
C25_UnparseableSpecWarns ==
    pc # "CONFIGURE" =>
        /\ args.background \notin ValidBgSpecs
              => (output.bg_color = NoColor /\ BgWarned)
        /\ (args.tint \notin ValidTintSpecs /\ args.tint # NoneSpec /\ args.tint # <<>>)
              => (output.tint_color = NoColor /\ TintWarned)
        /\ args.background = AUTO
              => output.bg_color = detect_background_color(target.pixels)
        /\ args.background = WHITE => output.bg_color = <<255, 255, 255>>
        /\ args.background = BLACK => output.bg_color = <<0, 0, 0>>
        /\ args.background = <<"1", "0", ",", " ", "2", "0", ",", " ", "2", "0">>
              => output.bg_color = <<10, 20, 20>>
        /\ args.background \in {NONE, NoneSpec} => output.bg_color = NoColor

\* What does hold of the resolution: it never fails, an unparseable
\* specification disables its feature, and only the background one warns.
ResolutionAsCoded ==
    pc # "CONFIGURE" =>
        /\ err = "none"
        /\ args.background \notin ValidBgSpecs
              => (output.bg_color = NoColor /\ BgWarned)
        /\ args.background \in ValidBgSpecs => ~BgWarned
        /\ args.tint \notin ValidTintSpecs => output.tint_color = NoColor
        /\ ~TintWarned
        /\ args.background = AUTO
              => output.bg_color = detect_background_color(target.pixels)
        /\ args.background = WHITE => output.bg_color = <<255, 255, 255>>
        /\ args.background = BLACK => output.bg_color = <<0, 0, 0>>
        /\ args.background = <<"1", "0", ",", " ", "2", "0", ",", " ", "2", "0">>
              => output.bg_color = <<10, 20, 20>>
        /\ args.background \in {NONE, NoneSpec} => output.bg_color = NoColor

\* The pixels of the cell whose Euclidean distance to the background colour
\* is at most the tolerance.
WithinTolerance ==
    {i \in 1..Len(target.pixels) :
        squared_distance(target.pixels[i], output.bg_color)
            <= BgTolerance * BgTolerance}

\* C26: with a background colour resolved, a cell is classified as background
\* (skipped and filled with the background colour) if and only if the
\* fraction of its pixels within the tolerance of the background colour is at
\* least the threshold, both bounds included.
C26_BackgroundThreshold ==
    (pc = "CELL_DONE" /\ output.bg_color # NoColor) =>
        /\ (output.cell.kind = "bg")
              <=> (Cardinality(WithinTolerance) * args.bg_threshold[2]
                      >= args.bg_threshold[1] * Len(target.pixels))
        /\ output.cell.kind = "bg" =>
              (output.cell = BgFill(output.bg_color) /\ bg_cells_skipped = 1)

\* C26 witness: background white, threshold 0.9; exactly nine tenths of the
\* cell's pixels lie exactly at the tolerance from white, and the cell was
\* filled with white.
C26_Witness ==
    /\ pc = "CELL_DONE"
    /\ args.background = WHITE
    /\ args.bg_threshold = <<9, 10>>
    /\ Cardinality(WithinTolerance) * 10 = 9 * Len(target.pixels)
    /\ target.pixels[1] = <<255, 255, 225>>
    /\ output.cell = BgFill(<<255, 255, 255>>)

\* C27 as stated: the cheat blend of a base pixel and an overlay pixel is
\* apply_tint of the base pixel with the overlay pixel as tint, for every
\* mode and alpha, also in color mode under an overlay pixel of luminance
\* <= 0.001.
C27_CheatBlendIsApplyTint ==
    Blended("cheat_blend") =>
        output.pixel = apply_tint(args.pixel, args.over, args.alpha, args.blend_mode)

\* The overlay pixel is too dark for the color mode of apply_tint.
DarkOverlay == ~F32Less(F32Lit(1, 1000), luminosity(normalize(args.over)))

\* What does hold: the two agree in every mode but color, and in color mode
\* unless the overlay pixel has luminance <= 0.001.
CheatBlendAgreesUnlessDark ==
    (Blended("cheat_blend") /\ ~(args.blend_mode = "color" /\ DarkOverlay)) =>
        output.pixel = apply_tint(args.pixel, args.over, args.alpha, args.blend_mode)

\* The tile has never been recorded as used.
NeverUsed(i) == usage_count[i] = 0 /\ recent_usage[i] = <<>>

\* C28: a tile that has never been recorded as used is valid at every
\* position under every configuration; so a selection of find_best_match or
\* find_random_tile takes the least-used fallback only when every tile of
\* the pool has been used at least once, and while no more selections have
\* been made than the pool has tiles none of them took the fallback.
C28_UnusedTileIsValid ==
    /\ [](\A i \in TileIdx, p \in GridOf(target) :
              NeverUsed(i) => is_valid_position(i, p))
    /\ [][(SelectionStep /\ Selected.path = "fallback") =>
              \A i \in TileIdx : usage_count[i] >= 1]_vars
    /\ [](Len(log) <= NumTiles => NoFallbackTaken)

\* C28 witness: with max_reuse 1 and a minimum distance, as many selections
\* as the pool has tiles, one by each operation; the second found the used
\* tile invalid, took the never-used one, and no fallback happened.
C28_Witness ==
    /\ max_reuse = 1
    /\ args.min_reuse_distance > 0
    /\ NumTiles = 2
    /\ Len(log) = 2
    /\ log[1].op # log[2].op
    /\ log[1].tile # log[2].tile
    /\ log[2].among = 1
    /\ NoFallbackTaken

\* The capacity check of the run has relaxed the pool: the grid has more
\* cells than the pool has tiles and allow_reuse was configured false.
Relaxed ==
    /\ pc \in {"GRID_FILL"} \cup PostGrid
    /\ ~args.allow_reuse
    /\ NumCells > NumTiles

\* C29: in a run with min_reuse_distance = 0 whose capacity check relaxed the
\* pool, the computed max_reuse is enough for the whole grid: no selection of
\* the run, by find_best_match or by find_random_tile, takes the least-used
\* fallback, and once the grid is filled no usage_count exceeds max_reuse.
C29_RelaxedCapacitySuffices ==
    (Relaxed /\ args.min_reuse_distance = 0) =>
        /\ NoFallbackTaken
        /\ pc \in PostGrid => \A i \in TileIdx : usage_count[i] <= max_reuse

\* C29 witness: a relaxed run without minimum distance is done; it placed a
\* tile in every cell from a pool of two or more tiles, and one tile was
\* used exactly max_reuse times.
C29_Witness ==
    /\ Relaxed
    /\ args.min_reuse_distance = 0
    /\ pc = "DONE"
    /\ NumTiles >= 2
    /\ Len(log) = NumCells
    /\ \E i \in TileIdx : usage_count[i] = max_reuse

\* The album pool's last call returned the tile the last selection logged.
SameTileReturned == Len(log) > 0 => output.returned = log[Len(log)].tile

\* C30: with diversity_weight = 0 the two TilePool implementations agree:
\* built over the same tile colours with the same configuration and given
\* the same requests and the same random draws, after every call both have
\* selected the same tile and hold the same usage_count and recent_usage.
C30_PoolsAgree ==
    (pc = "TWIN" /\ args.diversity_weight = 0) =>
        /\ SameTileReturned
        /\ output.usage_count = usage_count
        /\ output.recent_usage = recent_usage

\* C30 witness: two calls without diversity weight; the first drew among
\* two candidates and took the second of them, the second call found one
\* valid tile, and the pools agree on the tile.
C30_Witness ==
    /\ pc = "TWIN"
    /\ args.diversity_weight = 0
    /\ Len(log) = 2
    /\ log[1].among = 2
    /\ log[1].randomize
    /\ log[1].tile = 2
    /\ colors[1] = colors[2]
    /\ log[2].path = "candidate"
    /\ log[2].among = 1
    /\ output.returned = log[2].tile

\* The pools agree whatever the diversity weight.
PoolsAgreeUnderDiversity ==
    pc = "TWIN" => (SameTileReturned /\ output.usage_count = usage_count)

====
